---- MODULE Spec2Model ----
(***************************************************************************)
(* State-machine model of the issue processing of codeface-extraction:     *)
(* the GitHub front end (issue_processing/issue_processing.py: load,       *)
(* reformat_issues, merge_issue_events, reformat_events, insert_user_data, *)
(* print_to_disk) and the identity buffer of the JIRA front end            *)
(* (issue_processing/jira_issue_processing.py: run, insert_user_data).     *)
(*                                                                         *)
(* Python values are modelled by value.  A dict object is a record; a      *)
(* user is a record tagged with py = "dict", None is tagged py = "None"    *)
(* and the empty string used for ref_target is tagged py = "str".          *)
(* event_info_2 holds a string, a list literal or a reference to the       *)
(* issue's resolution list (Python assigns the list object itself); the    *)
(* three are pairs <<tag, sequence of strings>>.  Timestamps are seconds   *)
(* 1, 2, ...; the empty string "" is EmptyT and sorts before all of them,  *)
(* as Python's string comparison does.                                     *)
(***************************************************************************)
EXTENDS Integers, Sequences, FiniteSets, TLC

(***************************************************************************)
(* Bounds of the model.                                                    *)
(***************************************************************************)
MaxIssues == 2
MaxFragments == 3
MaxTime == 2
MaxFiles == 2
MaxAuthors == 3
MaxChanges == 2
MaxEntries == 4

(***************************************************************************)
(* Python values.                                                          *)
(***************************************************************************)
\* jira_request_counter is compared with max_requests (45000 in the source,
\* scaled down for the model)
max_requests == 1

NoneT == -2
EmptyT == -1
\* a string that dateparser.parse cannot parse
BadT == -3

NoneUser == [py |-> "None", name |-> "", username |-> "", email |-> "", id |-> <<>>]
EmptyStr == [py |-> "str", name |-> "", username |-> "", email |-> "", id |-> <<>>]
User(n, u, e) == [py |-> "dict", name |-> n, username |-> u, email |-> e, id |-> <<>>]

Str(s) == <<"str", <<s>>>>
ListLit(l) == <<"list", l>>
RefResolution == <<"ref", <<"resolution">>>>

\* the "name" of a label that is null
NoneLabel == "<None>"

\* a user whose name, username and e-mail are empty
EmptyUser == User("", "", "")

alice == User("Alice", "alice", "alice@example.org")
bob == User("", "bob", "")
carol == User("Carol", "carol", "carol@example.org")

known_types == {"bug", "improvement", "enhancement", "new feature", "task", "test", "wish"}

known_resolutions ==
    {"unresolved", "fixed", "wontfix", "duplicate", "invalid", "incomplete",
     "cannot reproduce", "later", "not a problem", "implemented", "done",
     "auto closed", "pending", "closed", "remind", "resolved", "not a bug",
     "workaround", "staged", "delivered", "information provided",
     "works for me", "feedback received", "wontdo"}

(***************************************************************************)
(* Input domains: what load() may deliver.                                 *)
(***************************************************************************)
CommentTimes == {NoneT} \cup (1..MaxTime)
EventTimes == 1..MaxTime
MentionTimes == 1..MaxTime
LinkTimes == {MaxTime}
\* the seconds from the creation of an issue to two seconds after MaxTime
LateTimes == 1..(MaxTime + 2)
CommentUsers == {NoneUser, bob}
EventUsers == {bob}
MentionUsers == {NoneUser, carol}
LinkUsers == {NoneUser, bob}
RawLabels == {"Bug", "fixed", "question"}
IssueNumbers == {"1", "2", "3"}
StateEvents == {"closed", "reopened"}
LabelEvents == {"labeled", "unlabeled"}
MentionEvents == {"mentioned", "subscribed"}
CommitTypes == {"commitAddedToPullRequest", "commitMentionedInIssue", "commit"}
ListNames == {"eventsList", "commentsList", "relatedCommits", "reviewsList", "relatedIssues"}
RawTimes == {NoneT, EmptyT, BadT, 1}
RawEvents == {"closed", "mentioned"}
RawUsers == {bob, EmptyUser}

VARIABLES
    issues_json,     \* the content of issues.json
    issue_data,      \* the list of issues, as loaded and then updated in place
    phase,           \* position of run() of the GitHub front end
    users,           \* reformat_events: the user dictionary, username -> user
    issue_idx,       \* reformat_events: index of the issue being re-formatted
    event_idx,       \* reformat_events: index of the event being re-formatted
    user_buffer,     \* insert_user_data: user string -> user
    id_calls,        \* number of getPersonID calls per user string
    lines,           \* print_to_disk: the lines handed to the csv writer
    jira_files,      \* JIRA: the xml files of the source folder, each a list of issues
    jira_phase,      \* JIRA: position of run() of the JIRA front end
    file_idx,        \* JIRA: index of current_file in file_list
    jira_issues,     \* JIRA: the issues of the current file
    user_id_buffer,  \* JIRA: insert_user_data: user string -> person id
    jira_id_calls,   \* JIRA: per call of insert_user_data, the getPersonID calls per user string
    jira_lines,      \* JIRA: the lines appended to the result file
    skip_history,    \* JIRA: the command line flag --skip_history
    api_idx,         \* JIRA: load_issue_via_api: index of the issue in the loop
    jira_request_counter,  \* JIRA: the global counter of requests
    requests_sent    \* JIRA: the requests sent to JIRA since the last wait of 24 hours

github_vars ==
    <<issues_json, issue_data, phase, users, issue_idx, event_idx, user_buffer, id_calls, lines>>

api_vars == <<skip_history, api_idx, jira_request_counter, requests_sent>>

jira_vars ==
    <<jira_files, jira_phase, file_idx, jira_issues, user_id_buffer, jira_id_calls, jira_lines,
      api_vars>>

vars == <<github_vars, jira_vars>>

(***************************************************************************)
(* Helpers on sequences.                                                   *)
(***************************************************************************)
Range(s) == {s[k] : k \in 1..Len(s)}

Front(s) == SubSeq(s, 1, Len(s) - 1)

Last(s) == s[Len(s)]

RECURSIVE Flatten(_)
Flatten(ss) == IF ss = <<>> THEN <<>> ELSE Flatten(Front(ss)) \o Last(ss)

(***************************************************************************)
(* format_time, subtract_seconds_from_time                                 *)
(***************************************************************************)
format_time(time) == IF time = EmptyT \/ time = NoneT THEN EmptyT ELSE time

\* dateparser.parse returns None for a string it cannot parse: None.strftime
\* raises AttributeError
format_time_raises(time) == time = BadT

\* strptime raises ValueError for the empty string
subtract_seconds_raises(time) == time = EmptyT

\* a time that lies after the given one
add_seconds_to_time(time, seconds) == time + seconds

subtract_seconds_from_time(time, seconds) == time - seconds

(***************************************************************************)
(* sorted(events, key=created_at): Python's sort is stable.                *)
(***************************************************************************)
InsertByTime(sorted, e) ==
    LET k == Cardinality({j \in 1..Len(sorted) : sorted[j].created_at <= e.created_at})
    IN SubSeq(sorted, 1, k) \o <<e>> \o SubSeq(sorted, k + 1, Len(sorted))

RECURSIVE SortByCreatedAt(_)
SortByCreatedAt(s) ==
    IF s = <<>> THEN <<>> ELSE InsertByTime(SortByCreatedAt(Front(s)), Last(s))

(***************************************************************************)
(* Events.  oid is the identity of the Python object: the issue index,    *)
(* the list the object was created for, and its position there.            *)
(***************************************************************************)
NewEvent(oid, event, user) ==
    [oid |-> oid, event |-> event, user |-> user,
     created_at |-> EmptyT, referenced_at |-> EmptyT, submitted_at |-> EmptyT,
     event_info_1 |-> "", event_info_2 |-> Str(""), ref_target |-> EmptyStr,
     label |-> "", number |-> "", type |-> "", commit |-> NoneUser,
     state |-> "", hasReviewInitialComment |-> FALSE,
     reviewId |-> 0, reviewComments |-> <<>>, dismissalMessage |-> ""]

NewIssue(number, user, created_at) ==
    [number |-> number, user |-> user, created_at |-> created_at,
     type |-> <<>>, resolution |-> <<>>, state_new |-> "",
     eventsList |-> <<>>, commentsList |-> <<>>, relatedIssues |-> <<>>,
     relatedCommits |-> <<>>, reviewsList |-> <<>>,
     absent |-> {}, null |-> {}]

\* absent: the lists whose key is missing in the record; null: the lists that
\* are null.  Both count as fragments of the input.
RECURSIVE NumReviewComments(_)
NumReviewComments(reviewsList) ==
    IF reviewsList = <<>> THEN 0
    ELSE NumReviewComments(Front(reviewsList)) + Len(Last(reviewsList).reviewComments)

NumFragments(issue) ==
    Len(issue.eventsList) + Len(issue.commentsList) + Len(issue.relatedIssues)
        + Len(issue.relatedCommits) + Len(issue.reviewsList)
        + NumReviewComments(issue.reviewsList)
        + Cardinality(issue.absent) + Cardinality(issue.null)

RECURSIVE SumFragments(_)
SumFragments(issues) ==
    IF issues = <<>> THEN 0
    ELSE SumFragments(Front(issues)) + NumFragments(Last(issues))

(***************************************************************************)
(* load: the issues of issues.json, one at a time; a fragment belongs to   *)
(* the issue read last.                                                    *)
(***************************************************************************)
IssueNumberOf(k) == IF k = 1 THEN "1" ELSE IF k = 2 THEN "2" ELSE "3"

CanLoadFragment ==
    /\ phase = "input"
    /\ issues_json # <<>>
    /\ SumFragments(issues_json) < MaxFragments

LoadInto(list, fragment) ==
    /\ list \notin Last(issues_json).absent \cup Last(issues_json).null
    /\ issues_json' = [issues_json EXCEPT ![Len(issues_json)][list] = Append(@, fragment)]
    /\ UNCHANGED <<issue_data, phase, users, issue_idx, event_idx, user_buffer, id_calls, lines>>
    /\ UNCHANGED jira_vars

LoadIssue ==
    /\ phase = "input"
    /\ Len(issues_json) < MaxIssues
    /\ issues_json' = Append(issues_json,
                             NewIssue(IssueNumberOf(Len(issues_json) + 1), alice, 1))
    /\ UNCHANGED <<issue_data, phase, users, issue_idx, event_idx, user_buffer, id_calls, lines>>
    /\ UNCHANGED jira_vars

LoadComment(from_users, at_times) ==
    /\ CanLoadFragment
    /\ \E user \in from_users, time \in at_times :
          LET i == Len(issues_json)
              k == Len(issues_json[i].commentsList) + 1
          IN LoadInto("commentsList",
                      [NewEvent(<<i, "comment", k>>, "", user) EXCEPT !.referenced_at = time])

LoadStateEvent ==
    /\ CanLoadFragment
    /\ \E event \in StateEvents, user \in EventUsers, time \in EventTimes :
          LET i == Len(issues_json)
              k == Len(issues_json[i].eventsList) + 1
          IN LoadInto("eventsList",
                      [NewEvent(<<i, "event", k>>, event, user) EXCEPT !.created_at = time])

LoadLabelEvent ==
    /\ CanLoadFragment
    /\ \E event \in LabelEvents, user \in EventUsers, time \in EventTimes, label \in RawLabels :
          LET i == Len(issues_json)
              k == Len(issues_json[i].eventsList) + 1
          IN LoadInto("eventsList",
                      [NewEvent(<<i, "event", k>>, event, user)
                          EXCEPT !.created_at = time, !.label = label])

LoadMentionEvent ==
    /\ CanLoadFragment
    /\ \E event \in MentionEvents, user \in MentionUsers, time \in MentionTimes :
          LET i == Len(issues_json)
              k == Len(issues_json[i].eventsList) + 1
          IN LoadInto("eventsList",
                      [NewEvent(<<i, "event", k>>, event, user) EXCEPT !.created_at = time])

LoadRelatedIssue(to_numbers, from_users, at_times) ==
    /\ CanLoadFragment
    /\ \E number \in to_numbers, user \in from_users, time \in at_times :
          LET i == Len(issues_json)
              k == Len(issues_json[i].relatedIssues) + 1
          IN LoadInto("relatedIssues",
                      [NewEvent(<<i, "relatedIssue", k>>, "", user)
                          EXCEPT !.referenced_at = time, !.number = number])

\* a raw event of any kind, with any user, timestamp and label
LoadEvent(events, from_users, at_times, labels) ==
    /\ CanLoadFragment
    /\ \E event \in events, user \in from_users, time \in at_times, label \in labels :
          LET i == Len(issues_json)
              k == Len(issues_json[i].eventsList) + 1
          IN LoadInto("eventsList",
                      [NewEvent(<<i, "event", k>>, event, user)
                          EXCEPT !.created_at = time, !.label = label])

\* a list of the issue read last is null, or its key is missing
LoadMissingList ==
    /\ CanLoadFragment
    /\ \E list \in ListNames, how \in {"absent", "null"} :
          LET i == Len(issues_json)
          IN /\ issues_json[i][list] = <<>>
             /\ list \notin issues_json[i].absent \cup issues_json[i].null
             /\ issues_json' = [issues_json EXCEPT ![i][how] = @ \cup {list}]
    /\ UNCHANGED <<issue_data, phase, users, issue_idx, event_idx, user_buffer, id_calls, lines>>
    /\ UNCHANGED jira_vars

LoadRelatedCommit ==
    /\ CanLoadFragment
    /\ \E type \in CommitTypes, user \in LinkUsers, time \in LinkTimes :
          LET i == Len(issues_json)
              k == Len(issues_json[i].relatedCommits) + 1
          IN LoadInto("relatedCommits",
                      [NewEvent(<<i, "relatedCommit", k>>, "", user)
                          EXCEPT !.referenced_at = time, !.type = type, !.commit = carol])

LoadReview(ids, from_users, at_times) ==
    /\ CanLoadFragment
    /\ \E reviewId \in ids, user \in from_users, time \in at_times, initial \in BOOLEAN :
          LET i == Len(issues_json)
              k == Len(issues_json[i].reviewsList) + 1
          IN LoadInto("reviewsList",
                      [NewEvent(<<i, "review", k>>, "", user)
                          EXCEPT !.submitted_at = time, !.state = "APPROVED",
                                 !.hasReviewInitialComment = initial,
                                 !.reviewId = reviewId])

\* a comment of the review read last
LoadReviewComment(from_users, at_times) ==
    /\ CanLoadFragment
    /\ Last(issues_json).reviewsList # <<>>
    /\ \E user \in from_users, time \in at_times :
          LET i == Len(issues_json)
              k == Len(issues_json[i].reviewsList)
              c == Len(issues_json[i].reviewsList[k].reviewComments) + 1
          IN issues_json' = [issues_json EXCEPT
                 ![i].reviewsList[k].reviewComments =
                     Append(@, [NewEvent(<<i, "reviewComment", <<k, c>>>>, "", user)
                                   EXCEPT !.referenced_at = time])]
    /\ UNCHANGED <<issue_data, phase, users, issue_idx, event_idx, user_buffer, id_calls, lines>>
    /\ UNCHANGED jira_vars

\* a review_dismissed event, with the state it carries, with or without a
\* dismissal message
LoadDismissal(ids, from_users, at_times, messages) ==
    /\ CanLoadFragment
    /\ \E reviewId \in ids, user \in from_users, time \in at_times, message \in messages :
          LET i == Len(issues_json)
              k == Len(issues_json[i].eventsList) + 1
          IN LoadInto("eventsList",
                      [NewEvent(<<i, "event", k>>, "review_dismissed", user)
                          EXCEPT !.created_at = time, !.state = "CHANGES_REQUESTED",
                                 !.reviewId = reviewId, !.dismissalMessage = message])

(***************************************************************************)
(* load                                                                    *)
(***************************************************************************)
Load ==
    /\ phase = "input"
    /\ issue_data' = issues_json
    /\ phase' = "loaded"
    /\ UNCHANGED <<issues_json, users, issue_idx, event_idx, user_buffer, id_calls, lines>>
    /\ UNCHANGED jira_vars

(***************************************************************************)
(* reformat_issues                                                         *)
(***************************************************************************)
\* a null eventsList, commentsList, relatedCommits or reviewsList and a missing
\* relatedIssues become an empty list
reformat_issue(issue) ==
    [issue EXCEPT !.type = <<"issue">>,
                  !.resolution = <<>>,
                  !.null = @ \cap {"relatedIssues"},
                  !.absent = @ \ {"relatedIssues"},
                  !.created_at = format_time(issue.created_at)]

\* issue["eventsList"] is None: KeyError when the key is missing
reformat_issue_raises(issue) ==
    \/ issue.absent \ {"relatedIssues"} # {}
    \/ format_time_raises(issue.created_at)

ReformatIssues ==
    /\ phase = "loaded"
    /\ IF \E k \in 1..Len(issue_data) : reformat_issue_raises(issue_data[k])
          THEN /\ phase' = "error"
               /\ UNCHANGED issue_data
          ELSE /\ phase' = "reformatted"
               /\ issue_data' = [k \in 1..Len(issue_data) |-> reformat_issue(issue_data[k])]
    /\ UNCHANGED <<issues_json, users, issue_idx, event_idx, user_buffer, id_calls, lines>>
    /\ UNCHANGED jira_vars

(***************************************************************************)
(* merge_issue_events                                                      *)
(***************************************************************************)
\* str.lower() on the strings of the input domains
Lower(s) ==
    CASE s = "Bug" -> "bug"
      [] s = "APPROVED" -> "approved"
      [] s = "Open" -> "open"
      [] s = "Closed" -> "closed"
      [] OTHER -> s

created_event(issue, i) ==
    [NewEvent(<<i, "created", 0>>, "created", issue.user)
        EXCEPT !.created_at = issue.created_at,
               !.event_info_1 = "open",
               !.event_info_2 = ListLit(<<>>)]

creationComment(issue, i) ==
    [NewEvent(<<i, "creationComment", 0>>, "commented", issue.user)
        EXCEPT !.referenced_at = issue.created_at]

reformat_rel_issue(rel_issue) ==
    [rel_issue EXCEPT !.created_at = format_time(rel_issue.referenced_at),
                      !.event = "add_link",
                      !.event_info_1 = rel_issue.number,
                      !.event_info_2 = Str("issue"),
                      !.ref_target = EmptyStr]

\* the event queued in issue_data_to_update for the issue that rel_issue names
referenced_issue_event(issue, rel_issue, i, k) ==
    [NewEvent(<<i, "referenced_by", k>>, "referenced_by", rel_issue.user)
        EXCEPT !.created_at = format_time(rel_issue.referenced_at),
               !.number = rel_issue.number,
               !.event_info_1 = issue.number,
               !.event_info_2 = Str("issue"),
               !.ref_target = EmptyStr]

reformat_rel_commit(rel_commit) ==
    [rel_commit EXCEPT !.created_at = format_time(rel_commit.referenced_at),
                       !.event_info_1 = "hash",
                       !.ref_target = EmptyStr,
                       !.event = IF rel_commit.type = "commitAddedToPullRequest"
                                     THEN "commit_added"
                                 ELSE IF rel_commit.type = "commitMentionedInIssue"
                                     THEN "add_link"
                                 ELSE "referenced_by",
                       !.event_info_2 = IF rel_commit.type = "commitAddedToPullRequest"
                                            THEN Str("")
                                        ELSE Str("commit")]

reformat_comment(comment) ==
    [comment EXCEPT !.event = "commented",
                    !.ref_target = EmptyStr,
                    !.created_at = format_time(comment.referenced_at)]

reformat_review(review) ==
    [review EXCEPT !.event = "reviewed",
                   !.created_at = format_time(review.submitted_at),
                   !.event_info_1 = Lower(review.state),
                   !.event_info_2 = Str(""),
                   !.ref_target = EmptyStr]

initialComment(review, i, k) ==
    [NewEvent(<<i, "initialComment", k>>, "commented", review.user)
        EXCEPT !.created_at = format_time(review.submitted_at)]

reformat_review_comment(reviewComment) ==
    [reviewComment EXCEPT !.event = "commented",
                          !.created_at = format_time(reviewComment.referenced_at),
                          !.ref_target = EmptyStr]

\* the comments appended to commentsList for the reviews, in the order of the reviews
RECURSIVE review_comments(_, _, _)
review_comments(reviewsList, i, n) ==
    IF n = 0 THEN <<>>
    ELSE review_comments(reviewsList, i, n - 1) \o
            (IF reviewsList[n].hasReviewInitialComment
                THEN <<initialComment(reviewsList[n], i, n)>>
                ELSE <<>>) \o
            [c \in 1..Len(reviewsList[n].reviewComments) |->
                reformat_review_comment(reviewsList[n].reviewComments[c])]

HasDismissalMessage(event) ==
    event.event = "review_dismissed" /\ event.dismissalMessage # ""

dismissalComment(event, i, k) ==
    [NewEvent(<<i, "dismissalComment", k>>, "commented", event.user)
        EXCEPT !.created_at = format_time(event.created_at)]

\* the comments appended to commentsList for the dismissals, in the order of the events
RECURSIVE dismissal_comments(_, _, _)
dismissal_comments(eventsList, i, n) ==
    IF n = 0 THEN <<>>
    ELSE dismissal_comments(eventsList, i, n - 1) \o
            (IF HasDismissalMessage(eventsList[n])
                THEN <<dismissalComment(eventsList[n], i, n)>>
                ELSE <<>>)

\* a dismissal that keeps the state of the review
mark_later_dismissed(review, event) ==
    [review EXCEPT !.event_info_2 = Str("later_dismissed")]

\* review["state"] = review["event_info_1"] = event["state"]
dismiss_review(review, event) ==
    [review EXCEPT !.state = event.state,
                   !.event_info_1 = event.state,
                   !.event_info_2 = Str("later_dismissed")]

\* the review after the loop over the events: every review_dismissed event of
\* its reviewId has written to it, in the order of the events
RECURSIVE review_after_events(_, _, _)
review_after_events(review, eventsList, n) ==
    IF n = 0 THEN review
    ELSE LET before == review_after_events(review, eventsList, n - 1)
         IN IF /\ eventsList[n].event = "review_dismissed"
               /\ before.reviewId = eventsList[n].reviewId
                THEN dismiss_review(before, eventsList[n])
                ELSE before

\* comments[time]: the comment cached last under this key
HasCommentAt(commentsList, time) ==
    \E k \in 1..Len(commentsList) : commentsList[k].created_at = time

\* a cache that keeps the first comment of a timestamp
FirstCommentAt(commentsList, time) ==
    LET ks == {k \in 1..Len(commentsList) : commentsList[k].created_at = time}
    IN commentsList[CHOOSE k \in ks : \A j \in ks : k <= j]

CommentAt(commentsList, time) ==
    LET ks == {k \in 1..Len(commentsList) : commentsList[k].created_at = time}
    IN commentsList[CHOOSE k \in ks : \A j \in ks : j <= k]

IsMention(event) == event.event = "mentioned" \/ event.event = "subscribed"

rewrite_reference(event, comment) ==
    IF IsMention(event) /\ comment.event = "commented"
        THEN [event EXCEPT !.ref_target = event.user, !.user = comment.user]
        ELSE event

\* one iteration of the loop that adjusts the format of every event
reformat_event(event, commentsList) ==
    LET time == format_time(event.created_at)
        e == [event EXCEPT !.ref_target = EmptyStr, !.created_at = time]
    IN IF HasCommentAt(commentsList, time)
           THEN rewrite_reference(e, CommentAt(commentsList, time))
       ELSE IF HasCommentAt(commentsList, subtract_seconds_from_time(time, 1))
           THEN rewrite_reference(e, CommentAt(commentsList, subtract_seconds_from_time(time, 1)))
       ELSE e

reformat_event_raises(event, commentsList) ==
    LET time == format_time(event.created_at)
    IN \/ format_time_raises(event.created_at)
       \/ ~HasCommentAt(commentsList, time) /\ subtract_seconds_raises(time)

\* a filter that looks at the acting user only
remove_events_without_acting_user(eventsList) ==
    SelectSeq(eventsList, LAMBDA event : ~(event.user = NoneUser))

remove_events_without_user(eventsList) ==
    SelectSeq(eventsList, LAMBDA event : ~(event.user = NoneUser \/ event.ref_target = NoneUser))

sort_events_by_time(eventsList) == SortByCreatedAt(eventsList)

\* the body of the loop over the issues, for the issue at index i
merge_issue(issue, i) ==
    LET eventsList == Append(issue.eventsList, created_event(issue, i))
        relatedIssues == [k \in 1..Len(issue.relatedIssues) |->
                             reformat_rel_issue(issue.relatedIssues[k])]
        relatedCommits == [k \in 1..Len(issue.relatedCommits) |->
                              reformat_rel_commit(issue.relatedCommits[k])]
        comments0 == Append(issue.commentsList, creationComment(issue, i))
        commentsList == [k \in 1..Len(comments0) |-> reformat_comment(comments0[k])]
                            \o review_comments(issue.reviewsList, i, Len(issue.reviewsList))
                            \o dismissal_comments(eventsList, i, Len(eventsList))
        reviewsList == [k \in 1..Len(issue.reviewsList) |->
                           review_after_events(reformat_review(issue.reviewsList[k]),
                                               eventsList, Len(eventsList))]
        events == [k \in 1..Len(eventsList) |-> reformat_event(eventsList[k], commentsList)]
        merged == commentsList \o events \o relatedIssues \o relatedCommits \o reviewsList
    IN [issue EXCEPT !.state_new = "open",
                     !.eventsList = sort_events_by_time(remove_events_without_user(merged)),
                     !.commentsList = <<>>,
                     !.relatedIssues = <<>>,
                     !.relatedCommits = <<>>,
                     !.reviewsList = <<>>]

merge_issue_raises(issue, i) ==
    LET eventsList == Append(issue.eventsList, created_event(issue, i))
        comments0 == Append(issue.commentsList, creationComment(issue, i))
        commentsList == [k \in 1..Len(comments0) |-> reformat_comment(comments0[k])]
                            \o review_comments(issue.reviewsList, i, Len(issue.reviewsList))
                            \o dismissal_comments(eventsList, i, Len(eventsList))
    IN \/ "relatedIssues" \in issue.null
       \/ \E k \in 1..Len(issue.relatedIssues) :
              format_time_raises(issue.relatedIssues[k].referenced_at)
       \/ \E k \in 1..Len(issue.relatedCommits) :
              format_time_raises(issue.relatedCommits[k].referenced_at)
       \/ \E k \in 1..Len(comments0) : format_time_raises(comments0[k].referenced_at)
       \/ \E k \in 1..Len(issue.reviewsList) :
              \/ format_time_raises(issue.reviewsList[k].submitted_at)
              \/ \E c \in 1..Len(issue.reviewsList[k].reviewComments) :
                     format_time_raises(issue.reviewsList[k].reviewComments[c].referenced_at)
       \/ \E k \in 1..Len(eventsList) : reformat_event_raises(eventsList[k], commentsList)

\* issue_data_to_update: the queued referenced_by events, in the order they are queued
RECURSIVE referenced_by_of_issue(_, _, _)
referenced_by_of_issue(issue, i, n) ==
    IF n = 0 THEN <<>>
    ELSE Append(referenced_by_of_issue(issue, i, n - 1),
                referenced_issue_event(issue, issue.relatedIssues[n], i, n))

RECURSIVE issue_data_to_update(_, _)
issue_data_to_update(issues, n) ==
    IF n = 0 THEN <<>>
    ELSE issue_data_to_update(issues, n - 1)
            \o referenced_by_of_issue(issues[n], n, Len(issues[n].relatedIssues))

\* a backfill that does not compare the numbers
update_every_issue(issue, to_update) ==
    [issue EXCEPT !.eventsList = @ \o to_update]

\* the second loop: every issue gets the events queued under its number
update_referenced_issue(issue, to_update) ==
    [issue EXCEPT !.eventsList =
        @ \o SelectSeq(to_update, LAMBDA event : event.number = issue.number)]

merge_issue_events(issues) ==
    LET to_update == issue_data_to_update(issues, Len(issues))
    IN [k \in 1..Len(issues) |-> update_referenced_issue(merge_issue(issues[k], k), to_update)]

MergeIssueEvents ==
    /\ phase = "reformatted"
    /\ IF \E k \in 1..Len(issue_data) : merge_issue_raises(issue_data[k], k)
          THEN /\ phase' = "error"
               /\ UNCHANGED issue_data
          ELSE /\ phase' = "merged"
               /\ issue_data' = merge_issue_events(issue_data)
    /\ UNCHANGED <<issues_json, users, issue_idx, event_idx, user_buffer, id_calls, lines>>
    /\ UNCHANGED jira_vars

(***************************************************************************)
(* reformat_events: the user dictionary                                    *)
(***************************************************************************)
EmptyDict == [key \in {} |-> NoneUser]

update_user_dict(user_dict, user) ==
    IF user.username \notin DOMAIN user_dict
        THEN IF user.username # ""
                 THEN user_dict @@ (user.username :> user)
                 ELSE user_dict
        ELSE LET user_in_dict == user_dict[user.username]
             IN [user_dict EXCEPT ![user.username] =
                    [user_in_dict EXCEPT
                        !.name = IF user_in_dict.name = "" THEN user.name ELSE @,
                        !.email = IF user_in_dict.email = "" THEN user.email ELSE @]]

\* subscripting None raises TypeError
update_user_dict_raises(user) == user.py # "dict"

lookup_user(user_dict, user) ==
    IF user.name = "" \/ user.email = "" THEN user_dict[user.username] ELSE user

\* KeyError; subscripting None or "" with a string raises TypeError
lookup_user_raises(user_dict, user) ==
    \/ user.py # "dict"
    \/ (user.name = "" \/ user.email = "") /\ user.username \notin DOMAIN user_dict

IsCommitEvent(event) ==
    \/ event.event = "commit_added"
    \/ event.event = "add_link" /\ event.event_info_2 = Str("commit")
    \/ event.event = "referenced_by" /\ event.event_info_2 = Str("commit")

\* the users passed to update_user_dict for one event, in order
users_of_event(event) ==
    (IF IsCommitEvent(event) THEN <<event.commit>> ELSE <<>>)
        \o <<event.user>>
        \o (IF event.ref_target # NoneUser /\ event.ref_target # EmptyStr
                THEN <<event.ref_target>> ELSE <<>>)

RECURSIVE users_of_events(_, _)
users_of_events(eventsList, n) ==
    IF n = 0 THEN <<>>
    ELSE users_of_events(eventsList, n - 1) \o users_of_event(eventsList[n])

RECURSIVE users_of_issues(_, _)
users_of_issues(issues, n) ==
    IF n = 0 THEN <<>>
    ELSE users_of_issues(issues, n - 1)
            \o users_of_events(issues[n].eventsList, Len(issues[n].eventsList))

RECURSIVE create_user_dict(_, _)
create_user_dict(seen, n) ==
    IF n = 0 THEN EmptyDict
    ELSE update_user_dict(create_user_dict(seen, n - 1), seen[n])

\* the least index after i of an issue whose eventsList is not empty, or 0
NextIssue(issues, i) ==
    LET later == {k \in (i + 1)..Len(issues) : issues[k].eventsList # <<>>}
    IN IF later = {} THEN 0 ELSE CHOOSE k \in later : \A j \in later : k <= j

ReformatEventsBegin ==
    /\ phase = "merged"
    /\ LET seen == users_of_issues(issue_data, Len(issue_data))
           first == NextIssue(issue_data, 0)
       IN IF \E k \in 1..Len(seen) : update_user_dict_raises(seen[k])
              THEN /\ phase' = "error"
                   /\ UNCHANGED <<users, issue_idx, event_idx>>
              ELSE /\ users' = create_user_dict(seen, Len(seen))
                   /\ phase' = IF first = 0 THEN "events_reformatted" ELSE "reformat_events"
                   /\ issue_idx' = first
                   /\ event_idx' = IF first = 0 THEN 0 ELSE 1
    /\ UNCHANGED <<issues_json, issue_data, user_buffer, id_calls, lines>>
    /\ UNCHANGED jira_vars

(***************************************************************************)
(* reformat_events: one iteration of the loop over the eventsList of an    *)
(* issue.  The loop iterates the list by index while the body appends to   *)
(* it, so appended events are visited too.                                 *)
(***************************************************************************)
\* list.remove(x): removes the first occurrence
list_remove(list, x) ==
    LET k == CHOOSE k \in 1..Len(list) : list[k] = x /\ \A j \in 1..(k - 1) : list[j] # x
    IN SubSeq(list, 1, k - 1) \o SubSeq(list, k + 1, Len(list))

\* ValueError: list.remove(x): x not in list
list_remove_raises(list, x) == \A k \in 1..Len(list) : list[k] # x

\* a synthesized event that is a copy of the label event
update_event_as_label_event(event, oid, name, new, old) ==
    [event EXCEPT !.oid = oid]

\* the synthesized type_updated / resolution_updated event
update_event(event, oid, name, new, old) ==
    [NewEvent(oid, name, event.user)
        EXCEPT !.created_at = event.created_at,
               !.event_info_1 = new,
               !.event_info_2 = Str(old),
               !.ref_target = EmptyStr]

\* a close event that records the running state as the old state
close_event_running_state(issue, event) ==
    [event EXCEPT !.event = "state_updated",
                  !.event_info_1 = "closed",
                  !.event_info_2 = Str(issue.state_new)]

close_event(issue, event) ==
    [event EXCEPT !.event = "state_updated",
                  !.event_info_1 = "closed",
                  !.event_info_2 = Str("open")]

reopen_event(issue, event) ==
    [event EXCEPT !.event = "state_updated",
                  !.event_info_1 = "open",
                  !.event_info_2 = Str("closed")]

issue_closed(issue, event, j) ==
    [issue EXCEPT !.eventsList[j] = close_event(issue, event),
                  !.state_new = "closed"]

\* a reopening that sets the running state back to "open"
issue_reopened_as_open(issue, event, j) ==
    [issue EXCEPT !.eventsList[j] = reopen_event(issue, event),
                  !.state_new = "open"]

issue_reopened(issue, event, j) ==
    [issue EXCEPT !.eventsList[j] = reopen_event(issue, event),
                  !.state_new = "reopened"]

\* a comment stamped with the state of a fresh issue
comment_event_initial_state(issue, event) ==
    [event EXCEPT !.event_info_1 = "open",
                  !.event_info_2 = RefResolution]

comment_event(issue, event) ==
    [event EXCEPT !.event_info_1 = issue.state_new,
                  !.event_info_2 = RefResolution]

label_added(issue, event, j, i) ==
    LET label == Lower(event.label)
        e == [event EXCEPT !.event_info_1 = label]
    IN IF label \in known_types
           THEN [issue EXCEPT
                    !.type = Append(@, label),
                    !.eventsList = Append([@ EXCEPT ![j] = e],
                        update_event(e, <<i, "type_updated", j>>, "type_updated", label, ""))]
       ELSE IF label \in known_resolutions
           THEN [issue EXCEPT
                    !.resolution = Append(@, label),
                    !.eventsList = Append([@ EXCEPT ![j] = e],
                        update_event(e, <<i, "resolution_updated", j>>, "resolution_updated", label, ""))]
       ELSE [issue EXCEPT !.eventsList[j] = e]

\* a removal that synthesizes the event of an addition
label_removed_as_added(issue, event, j, i) ==
    LET label == Lower(event.label)
        e == [event EXCEPT !.event_info_1 = label]
    IN IF label \in known_types
           THEN [issue EXCEPT
                    !.type = list_remove(@, label),
                    !.eventsList = Append([@ EXCEPT ![j] = e],
                        update_event(e, <<i, "type_updated", j>>, "type_updated", label, ""))]
       ELSE IF label \in known_resolutions
           THEN [issue EXCEPT
                    !.resolution = list_remove(@, label),
                    !.eventsList = Append([@ EXCEPT ![j] = e],
                        update_event(e, <<i, "resolution_updated", j>>, "resolution_updated", label, ""))]
       ELSE [issue EXCEPT !.eventsList[j] = e]

label_removed(issue, event, j, i) ==
    LET label == Lower(event.label)
        e == [event EXCEPT !.event_info_1 = label]
    IN IF label \in known_types
           THEN [issue EXCEPT
                    !.type = list_remove(@, label),
                    !.eventsList = Append([@ EXCEPT ![j] = e],
                        update_event(e, <<i, "type_updated", j>>, "type_updated", "", label))]
       ELSE IF label \in known_resolutions
           THEN [issue EXCEPT
                    !.resolution = list_remove(@, label),
                    !.eventsList = Append([@ EXCEPT ![j] = e],
                        update_event(e, <<i, "resolution_updated", j>>, "resolution_updated", "", label))]
       ELSE [issue EXCEPT !.eventsList[j] = e]

\* event["label"]["name"]: TypeError when the label is null
label_name_raises(event) == event.label = NoneLabel

label_removed_raises(issue, event) ==
    LET label == Lower(event.label)
    IN IF label \in known_types THEN list_remove_raises(issue.type, label)
       ELSE IF label \in known_resolutions THEN list_remove_raises(issue.resolution, label)
       ELSE FALSE

\* the body of the loop for the event at index j of the issue at index i
update_event_information(issue, j, i, user_dict) ==
    LET event0 == issue.eventsList[j]
        event == [event0 EXCEPT
                    !.user = lookup_user(user_dict, event0.user),
                    !.ref_target = IF event0.ref_target # EmptyStr
                                       THEN lookup_user(user_dict, event0.ref_target)
                                       ELSE @]
    IN IF event.event = "closed"
           THEN issue_closed(issue, event, j)
       ELSE IF event.event = "reopened"
           THEN issue_reopened(issue, event, j)
       ELSE IF event.event = "labeled"
           THEN label_added(issue, event, j, i)
       ELSE IF event.event = "unlabeled"
           THEN label_removed(issue, event, j, i)
       ELSE IF event.event = "commented"
           THEN [issue EXCEPT !.eventsList[j] = comment_event(issue, event)]
       ELSE [issue EXCEPT !.eventsList[j] = event]

update_event_information_raises(issue, j, user_dict) ==
    LET event == issue.eventsList[j]
    IN \/ lookup_user_raises(user_dict, event.user)
       \/ event.ref_target # EmptyStr /\ lookup_user_raises(user_dict, event.ref_target)
       \/ event.event \in LabelEvents /\ label_name_raises(event)
       \/ event.event = "unlabeled" /\ label_removed_raises(issue, event)

\* the timeline left in the order in which the loop appended to it
sort_events_again_skipped(eventsList) == eventsList

\* "sorts eventsList by time again", at the end of the loop over one issue's events
sort_events_again(eventsList) == SortByCreatedAt(eventsList)

\* an iteration that skips an event whose processing raises
ReformatEventSkipsRaising ==
    /\ phase = "reformat_events"
    /\ LET issue == issue_data[issue_idx]
           updated == IF update_event_information_raises(issue, event_idx, users)
                          THEN issue
                          ELSE update_event_information(issue, event_idx, issue_idx, users)
           finished == event_idx = Len(updated.eventsList)
           next == NextIssue(issue_data, issue_idx)
       IN /\ issue_data' = [issue_data EXCEPT ![issue_idx] =
                 IF finished
                     THEN [updated EXCEPT !.eventsList = sort_events_again(@)]
                     ELSE updated]
          /\ event_idx' = IF ~finished THEN event_idx + 1
                          ELSE IF next = 0 THEN 0 ELSE 1
          /\ issue_idx' = IF ~finished THEN issue_idx ELSE next
          /\ phase' = IF finished /\ next = 0
                          THEN "events_reformatted" ELSE "reformat_events"
    /\ UNCHANGED <<issues_json, users, user_buffer, id_calls, lines>>
    /\ UNCHANGED jira_vars

ReformatEvent ==
    /\ phase = "reformat_events"
    /\ LET issue == issue_data[issue_idx]
       IN IF update_event_information_raises(issue, event_idx, users)
              THEN /\ phase' = "error"
                   /\ UNCHANGED <<issue_data, issue_idx, event_idx>>
              ELSE LET updated == update_event_information(issue, event_idx, issue_idx, users)
                       finished == event_idx = Len(updated.eventsList)
                       next == NextIssue(issue_data, issue_idx)
                   IN /\ issue_data' = [issue_data EXCEPT ![issue_idx] =
                             IF finished
                                 THEN [updated EXCEPT !.eventsList = sort_events_again(@)]
                                 ELSE updated]
                      /\ event_idx' = IF ~finished THEN event_idx + 1
                                      ELSE IF next = 0 THEN 0 ELSE 1
                      /\ issue_idx' = IF ~finished THEN issue_idx ELSE next
                      /\ phase' = IF finished /\ next = 0
                                      THEN "events_reformatted" ELSE "reformat_events"
    /\ UNCHANGED <<issues_json, users, user_buffer, id_calls, lines>>
    /\ UNCHANGED jira_vars

(***************************************************************************)
(* insert_user_data                                                        *)
(***************************************************************************)
\* "{name}" or "{name} <{email}>"
get_user_string(name, email) == IF email = "" THEN <<name>> ELSE <<name, email>>

\* idservice.getPersonID followed by idservice.getPersonFromDB
getPersonFromDB(user_string) ==
    [name |-> user_string[1],
     email1 |-> IF Len(user_string) = 2 THEN user_string[2] ELSE "",
     id |-> user_string]

\* a buffer that is never hit
buffer_miss(user_string, buffer_db) == FALSE

in_buffer(user_string, buffer_db) == user_string \in DOMAIN buffer_db

\* the state of the closure: user_buffer and the calls of getPersonID so far
get_or_update_user(user, st) ==
    LET user_string == get_user_string(user.name, user.email)
        person == getPersonFromDB(user_string)
        updated == [user EXCEPT !.email = person.email1, !.name = person.name,
                                !.id = person.id]
    IN IF in_buffer(user_string, st.buffer)
           THEN [user |-> st.buffer[user_string], buffer |-> st.buffer, calls |-> st.calls]
           ELSE [user |-> updated,
                 buffer |-> st.buffer @@ (user_string :> updated),
                 calls |-> IF user_string \in DOMAIN st.calls
                               THEN [st.calls EXCEPT ![user_string] = @ + 1]
                               ELSE st.calls @@ (user_string :> 1)]

insert_event_user(event, st) ==
    LET a == get_or_update_user(event.user, st)
        st1 == [buffer |-> a.buffer, calls |-> a.calls]
        b == get_or_update_user(event.ref_target, st1)
    IN IF event.ref_target # EmptyStr
           THEN [event |-> [event EXCEPT !.user = a.user,
                                         !.ref_target = b.user,
                                         !.event_info_1 = b.user.name,
                                         !.event_info_2 = Str(b.user.email)],
                 buffer |-> b.buffer, calls |-> b.calls]
           ELSE [event |-> [event EXCEPT !.user = a.user],
                 buffer |-> a.buffer, calls |-> a.calls]

RECURSIVE insert_events_users(_, _, _)
insert_events_users(eventsList, n, st) ==
    IF n = 0 THEN [eventsList |-> <<>>, buffer |-> st.buffer, calls |-> st.calls]
    ELSE LET before == insert_events_users(eventsList, n - 1, st)
             this == insert_event_user(eventsList[n],
                                       [buffer |-> before.buffer, calls |-> before.calls])
         IN [eventsList |-> Append(before.eventsList, this.event),
             buffer |-> this.buffer, calls |-> this.calls]

RECURSIVE insert_user_data(_, _, _)
insert_user_data(issues, n, st) ==
    IF n = 0 THEN [issues |-> <<>>, buffer |-> st.buffer, calls |-> st.calls]
    ELSE LET before == insert_user_data(issues, n - 1, st)
             author == get_or_update_user(issues[n].user,
                                          [buffer |-> before.buffer, calls |-> before.calls])
             events == insert_events_users(issues[n].eventsList, Len(issues[n].eventsList),
                                           [buffer |-> author.buffer, calls |-> author.calls])
         IN [issues |-> Append(before.issues,
                               [issues[n] EXCEPT !.user = author.user,
                                                 !.eventsList = events.eventsList]),
             buffer |-> events.buffer, calls |-> events.calls]

EmptyBuffer == [key \in {} |-> NoneUser]

NoCalls == [key \in {} |-> 0]

InsertUserData ==
    /\ phase = "events_reformatted"
    /\ LET done == insert_user_data(issue_data, Len(issue_data),
                                    [buffer |-> EmptyBuffer, calls |-> id_calls])
       IN /\ issue_data' = done.issues
          /\ user_buffer' = done.buffer
          /\ id_calls' = done.calls
    /\ phase' = "users_inserted"
    /\ UNCHANGED <<issues_json, users, issue_idx, event_idx, lines>>
    /\ UNCHANGED jira_vars

(***************************************************************************)
(* print_to_disk                                                           *)
(***************************************************************************)
\* json.dumps(event["event_info_2"]): a reference to the resolution list is
\* read when the line is built
json_dumps_info_2(issue, event) ==
    IF event.event_info_2 = RefResolution THEN ListLit(issue.resolution)
    ELSE event.event_info_2

\* a line that carries the state of a new issue
line_of_new_issue(issue, event) ==
    [number |-> issue.number,
     type |-> issue.type,
     state_new |-> "open",
     resolution |-> issue.resolution,
     created_at |-> issue.created_at,
     event |-> event.event,
     name |-> event.user.name,
     email |-> event.user.email,
     date |-> event.created_at,
     event_info_1 |-> event.event_info_1,
     event_info_2 |-> json_dumps_info_2(issue, event)]

line_of(issue, event) ==
    [number |-> issue.number,
     type |-> issue.type,
     state_new |-> issue.state_new,
     resolution |-> issue.resolution,
     created_at |-> issue.created_at,
     event |-> event.event,
     name |-> event.user.name,
     email |-> event.user.email,
     date |-> event.created_at,
     event_info_1 |-> event.event_info_1,
     event_info_2 |-> json_dumps_info_2(issue, event)]

RECURSIVE lines_of_issues(_, _)
lines_of_issues(issues, n) ==
    IF n = 0 THEN <<>>
    ELSE lines_of_issues(issues, n - 1)
            \o [k \in 1..Len(issues[n].eventsList) |-> line_of(issues[n], issues[n].eventsList[k])]

\* one line per issue and kind of event
RECURSIVE one_line_per_kind(_)
one_line_per_kind(ls) ==
    IF ls = <<>> THEN <<>>
    ELSE LET front == one_line_per_kind(Front(ls))
         IN IF \E k \in 1..Len(front) : /\ front[k].number = Last(ls).number
                                        /\ front[k].event = Last(ls).event
                THEN front ELSE Append(front, Last(ls))

\* sorted(set(lines), key=lambda line: lines.index(line))
RECURSIVE unique_lines(_)
unique_lines(ls) ==
    IF ls = <<>> THEN <<>>
    ELSE LET front == unique_lines(Front(ls))
         IN IF Last(ls) \in Range(front) THEN front ELSE Append(front, Last(ls))

PrintToDisk ==
    /\ phase = "users_inserted"
    /\ lines' = unique_lines(lines_of_issues(issue_data, Len(issue_data)))
    /\ phase' = "done"
    /\ UNCHANGED <<issues_json, issue_data, users, issue_idx, event_idx, user_buffer, id_calls>>
    /\ UNCHANGED jira_vars

(***************************************************************************)
(* JIRA front end: run() processes the xml files of the source folder one  *)
(* after the other; insert_user_data is called once per file and creates   *)
(* its buffers anew.                                                       *)
(***************************************************************************)
JiraUsers == {alice, bob}

JiraStates == {"Open", "Closed"}

\* raw: created, state, comments, changelog (of the api); parsed: creationDate,
\* state_new, history
NewJiraIssue(externalId, author, state) ==
    [externalId |-> externalId, author |-> author, created |-> 1, state |-> state,
     comments |-> <<>>, changelog |-> <<>>,
     creationDate |-> EmptyT, state_new |-> "", history |-> <<>>]

NewJiraComment(author, created) ==
    [author |-> author, created |-> created, changeDate |-> EmptyT, state_on_creation |-> ""]

RECURSIVE NumAuthors(_)
\* the authors of the issues and comments of a list of issues
NumAuthors(issues) ==
    IF issues = <<>> THEN 0
    ELSE NumAuthors(Front(issues)) + 1 + Len(Last(issues).comments)

RECURSIVE SumAuthors(_)
SumAuthors(files) ==
    IF files = <<>> THEN 0 ELSE SumAuthors(Front(files)) + NumAuthors(Last(files))

JiraLoadFile ==
    /\ jira_phase = "input"
    /\ Len(jira_files) < MaxFiles
    /\ jira_files' = Append(jira_files, <<>>)
    /\ UNCHANGED <<jira_phase, file_idx, jira_issues, user_id_buffer, jira_id_calls, jira_lines>>
    /\ UNCHANGED github_vars
    /\ UNCHANGED api_vars

JiraLoadIssue(from_users, states) ==
    /\ jira_phase = "input"
    /\ jira_files # <<>>
    /\ SumAuthors(jira_files) < MaxAuthors
    /\ \E author \in from_users, state \in states :
          LET f == Len(jira_files)
              externalId == <<f, Len(jira_files[f]) + 1>>
          IN jira_files' = [jira_files EXCEPT
                               ![f] = Append(@, NewJiraIssue(externalId, author, state))]
    /\ UNCHANGED <<jira_phase, file_idx, jira_issues, user_id_buffer, jira_id_calls, jira_lines>>
    /\ UNCHANGED github_vars
    /\ UNCHANGED api_vars

JiraLoadComment(from_users, at_times) ==
    /\ jira_phase = "input"
    /\ jira_files # <<>>
    /\ Last(jira_files) # <<>>
    /\ SumAuthors(jira_files) < MaxAuthors
    /\ \E author \in from_users, created \in at_times :
          LET f == Len(jira_files)
              n == Len(jira_files[f])
          IN jira_files' = [jira_files EXCEPT
                               ![f][n].comments = Append(@, NewJiraComment(author, created))]
    /\ UNCHANGED <<jira_phase, file_idx, jira_issues, user_id_buffer, jira_id_calls, jira_lines>>
    /\ UNCHANGED github_vars
    /\ UNCHANGED api_vars

RECURSIVE NumChanges(_)
\* the entries of the changelogs of a list of issues
NumChanges(issues) ==
    IF issues = <<>> THEN 0
    ELSE NumChanges(Front(issues)) + Len(Last(issues).changelog)

RECURSIVE SumChanges(_)
SumChanges(files) ==
    IF files = <<>> THEN 0 ELSE SumChanges(Front(files)) + NumChanges(Last(files))

\* an entry of the changelog that JIRA keeps for the issue read last: a change
\* of the status
JiraLoadChange ==
    /\ jira_phase = "input"
    /\ jira_files # <<>>
    /\ Last(jira_files) # <<>>
    /\ SumChanges(jira_files) < MaxChanges
    /\ \E created \in 1..MaxTime, toString \in JiraStates :
          LET f == Len(jira_files)
              n == Len(jira_files[f])
              fromString == CHOOSE state \in JiraStates : state # toString
          IN jira_files' = [jira_files EXCEPT
                               ![f][n].changelog =
                                   Append(@, [created |-> created, author |-> bob,
                                              fromString |-> fromString,
                                              toString |-> toString])]
    /\ UNCHANGED <<jira_phase, file_idx, jira_issues, user_id_buffer, jira_id_calls, jira_lines>>
    /\ UNCHANGED github_vars
    /\ UNCHANGED api_vars

\* run(): list the source folder, clear the result files, enter the loop
JiraRun ==
    /\ jira_phase = "input"
    /\ jira_phase' = IF jira_files = <<>> THEN "done" ELSE "file"
    /\ file_idx' = IF jira_files = <<>> THEN 0 ELSE 1
    /\ UNCHANGED <<jira_files, jira_issues, user_id_buffer, jira_id_calls, jira_lines>>
    /\ UNCHANGED github_vars
    /\ UNCHANGED api_vars

\* parse_xml: an issue of the file; the history of a run with --skip_history
\* holds the links of the issue, which the input of the model does not have
parse_issue(issue) ==
    [issue EXCEPT
        !.creationDate = format_time(issue.created),
        !.state_new = Lower(issue.state),
        !.comments = [k \in 1..Len(issue.comments) |->
                         [issue.comments[k] EXCEPT
                             !.changeDate = format_time(issue.comments[k].created),
                             !.state_on_creation = issue.state]],
        !.history = <<>>]

parse_xml(issues) == [n \in 1..Len(issues) |-> parse_issue(issues[n])]

\* load_xml and parse_xml of current_file
JiraParseXml ==
    /\ jira_phase = "file"
    /\ jira_issues' = parse_xml(jira_files[file_idx])
    /\ jira_phase' = "parsed"
    /\ UNCHANGED <<jira_files, file_idx, user_id_buffer, jira_id_calls, jira_lines>>
    /\ UNCHANGED github_vars
    /\ UNCHANGED api_vars

(***************************************************************************)
(* load_issue_via_api: one request per issue, counted by the global        *)
(* counter; the changelog of the issue becomes its history and gives the   *)
(* comments the state the issue had when they were written.                *)
(***************************************************************************)
\* the counter after the request: the loop waits and starts again at 0 when the
\* counter is above max_requests, then counts the request
request_counter_unchecked(counter) == counter + 1

request_counter_after(counter) == IF counter > max_requests THEN 1 ELSE counter + 1

\* the state_updated events of the changelog
histories_of(changelog) ==
    [k \in 1..Len(changelog) |->
        [event |-> "state_updated",
         event_info_1 |-> Lower(changelog[k].toString),
         event_info_2 |-> Lower(changelog[k].fromString),
         author |-> User(changelog[k].author.name, changelog[k].author.name, ""),
         date |-> format_time(changelog[k].created)]]

\* state_changes, sorted by time
state_changes_of(issue, histories) ==
    SortByCreatedAt(<<[created_at |-> issue.creationDate, state |-> "open"]>>
                        \o [k \in 1..Len(histories) |->
                               [created_at |-> histories[k].date,
                                state |-> histories[k].event_info_1]])

\* for state in state_changes: if comment["changeDate"] > state[0]: ...
RECURSIVE state_on_creation(_, _, _)
state_on_creation(comment, state_changes, n) ==
    IF n = 0 THEN comment.state_on_creation
    ELSE IF comment.changeDate > state_changes[n].created_at THEN state_changes[n].state
    ELSE state_on_creation(comment, state_changes, n - 1)

load_issue(issue) ==
    LET histories == histories_of(issue.changelog)
        state_changes == state_changes_of(issue, histories)
    IN [issue EXCEPT
           !.comments = [k \in 1..Len(issue.comments) |->
                            [issue.comments[k] EXCEPT
                                !.state_on_creation =
                                    state_on_creation(issue.comments[k], state_changes,
                                                      Len(state_changes))]],
           !.history = histories]

\* load_issue_via_api is called unless --skip_history is given
JiraLoadIssueViaApi ==
    /\ jira_phase = "parsed"
    /\ ~skip_history
    /\ jira_phase' = IF jira_issues = <<>> THEN "history_loaded" ELSE "api"
    /\ api_idx' = IF jira_issues = <<>> THEN 0 ELSE 1
    /\ UNCHANGED <<jira_files, file_idx, jira_issues, user_id_buffer, jira_id_calls, jira_lines>>
    /\ UNCHANGED <<skip_history, jira_request_counter, requests_sent>>
    /\ UNCHANGED github_vars

\* the body of the loop over the issues: wait if the limit is reached, count
\* the request, send it, read the changelog
JiraApiIssue ==
    /\ jira_phase = "api"
    /\ jira_request_counter' = request_counter_after(jira_request_counter)
    /\ requests_sent' = IF jira_request_counter > max_requests THEN 1 ELSE requests_sent + 1
    /\ jira_issues' = [jira_issues EXCEPT ![api_idx] = load_issue(@)]
    /\ jira_phase' = IF api_idx < Len(jira_issues) THEN "api" ELSE "history_loaded"
    /\ api_idx' = IF api_idx < Len(jira_issues) THEN api_idx + 1 ELSE api_idx
    /\ UNCHANGED <<jira_files, file_idx, user_id_buffer, jira_id_calls, jira_lines>>
    /\ UNCHANGED skip_history
    /\ UNCHANGED github_vars

\* insert_user_data follows parse_xml or, without --skip_history, load_issue_via_api
ReadyForUserData ==
    \/ jira_phase = "parsed" /\ skip_history
    \/ jira_phase = "history_loaded"

\* the state of the closure: user_id_buffer and the calls of getPersonID so far
get_id_and_update_user(user, st) ==
    LET name == IF user.name # "" THEN user.name ELSE user.username
        user_string == get_user_string(name, user.email)
    IN IF in_buffer(user_string, st.buffer)
           THEN [idx |-> st.buffer[user_string], buffer |-> st.buffer, calls |-> st.calls]
           ELSE [idx |-> user_string,
                 buffer |-> st.buffer @@ (user_string :> user_string),
                 calls |-> IF user_string \in DOMAIN st.calls
                               THEN [st.calls EXCEPT ![user_string] = @ + 1]
                               ELSE st.calls @@ (user_string :> 1)]

get_user_from_id(idx) ==
    LET person == getPersonFromDB(idx)
    IN [User(person.name, "", person.email1) EXCEPT !.id = person.id]

RECURSIVE jira_comment_ids(_, _, _)
jira_comment_ids(comments, n, st) ==
    IF n = 0 THEN [ids |-> <<>>, buffer |-> st.buffer, calls |-> st.calls]
    ELSE LET before == jira_comment_ids(comments, n - 1, st)
             this == get_id_and_update_user(comments[n].author,
                                            [buffer |-> before.buffer, calls |-> before.calls])
         IN [ids |-> Append(before.ids, this.idx),
             buffer |-> this.buffer, calls |-> this.calls]

RECURSIVE jira_insert_user_data(_, _, _)
jira_insert_user_data(issues, n, st) ==
    IF n = 0 THEN [issues |-> <<>>, buffer |-> st.buffer, calls |-> st.calls]
    ELSE LET before == jira_insert_user_data(issues, n - 1, st)
             author == get_id_and_update_user(issues[n].author,
                                              [buffer |-> before.buffer, calls |-> before.calls])
             ids == jira_comment_ids(issues[n].comments, Len(issues[n].comments),
                                     [buffer |-> author.buffer, calls |-> author.calls])
         IN [issues |-> Append(before.issues,
                 [issues[n] EXCEPT
                     !.author = get_user_from_id(author.idx),
                     !.comments = [k \in 1..Len(ids.ids) |->
                                      [issues[n].comments[k] EXCEPT
                                          !.author = get_user_from_id(ids.ids[k])]]]),
             buffer |-> ids.buffer, calls |-> ids.calls]

JiraInsertUserData ==
    /\ ReadyForUserData
    /\ LET done == jira_insert_user_data(jira_issues, Len(jira_issues),
                                         [buffer |-> NoCalls, calls |-> NoCalls])
       IN /\ jira_issues' = done.issues
          /\ user_id_buffer' = done.buffer
          /\ jira_id_calls' = Append(jira_id_calls, done.calls)
    /\ jira_phase' = "users_inserted"
    /\ UNCHANGED <<jira_files, file_idx, jira_lines>>
    /\ UNCHANGED github_vars
    /\ UNCHANGED api_vars

jira_lines_of_issue(issue) ==
    <<[externalId |-> issue.externalId, event |-> "created",
       name |-> issue.author.name, email |-> issue.author.email,
       date |-> issue.creationDate, event_info_1 |-> "open"],
      [externalId |-> issue.externalId, event |-> "commented",
       name |-> issue.author.name, email |-> issue.author.email,
       date |-> issue.creationDate, event_info_1 |-> "open"]>>
        \o [k \in 1..Len(issue.comments) |->
               [externalId |-> issue.externalId, event |-> "commented",
                name |-> issue.comments[k].author.name,
                email |-> issue.comments[k].author.email,
                date |-> issue.comments[k].changeDate,
                event_info_1 |-> issue.comments[k].state_on_creation]]
        \o [k \in 1..Len(issue.history) |->
               [externalId |-> issue.externalId, event |-> issue.history[k].event,
                name |-> issue.history[k].author.name,
                email |-> issue.history[k].author.email,
                date |-> issue.history[k].date,
                event_info_1 |-> issue.history[k].event_info_1]]

RECURSIVE jira_lines_of_issues(_, _)
jira_lines_of_issues(issues, n) ==
    IF n = 0 THEN <<>>
    ELSE jira_lines_of_issues(issues, n - 1) \o jira_lines_of_issue(issues[n])

\* print_to_disk appends to the result file; then the loop goes to the next file
JiraPrintToDisk ==
    /\ jira_phase = "users_inserted"
    /\ jira_lines' = jira_lines \o jira_lines_of_issues(jira_issues, Len(jira_issues))
    /\ jira_phase' = IF file_idx < Len(jira_files) THEN "file" ELSE "done"
    /\ file_idx' = IF file_idx < Len(jira_files) THEN file_idx + 1 ELSE file_idx
    /\ UNCHANGED <<jira_files, jira_issues, user_id_buffer, jira_id_calls>>
    /\ UNCHANGED github_vars
    /\ UNCHANGED api_vars

Init ==
    /\ issues_json = <<>>
    /\ issue_data = <<>>
    /\ phase = "input"
    /\ users = EmptyDict
    /\ issue_idx = 0
    /\ event_idx = 0
    /\ user_buffer = EmptyBuffer
    /\ id_calls = NoCalls
    /\ lines = <<>>
    /\ jira_files = <<>>
    /\ jira_phase = "off"
    /\ file_idx = 0
    /\ jira_issues = <<>>
    /\ user_id_buffer = NoCalls
    /\ jira_id_calls = <<>>
    /\ jira_lines = <<>>
    /\ skip_history = TRUE
    /\ api_idx = 0
    /\ jira_request_counter = 0
    /\ requests_sent = 0

Run ==
    \/ Load
    \/ ReformatIssues
    \/ MergeIssueEvents
    \/ ReformatEventsBegin
    \/ ReformatEvent
    \/ InsertUserData
    \/ PrintToDisk

(***************************************************************************)
(* State reconstruction: issues with comments, state and label events and  *)
(* links to the first issue.                                               *)
(***************************************************************************)
Next ==
    \/ LoadIssue
    \/ LoadComment({bob}, CommentTimes)
    \/ LoadStateEvent
    \/ LoadLabelEvent
    \/ LoadRelatedIssue({"1"}, {bob}, {1})
    \/ Run

Spec == Init /\ [][Next]_vars

(***************************************************************************)
(* Merging: issues with comments, mentions, links, commits and reviews,    *)
(* with and without a user.                                                *)
(***************************************************************************)
NextMerge ==
    \/ LoadIssue
    \/ LoadComment(CommentUsers, EventTimes)
    \/ LoadMentionEvent
    \/ LoadRelatedIssue(IssueNumbers, LinkUsers, LinkTimes)
    \/ LoadRelatedCommit
    \/ LoadReview({0}, LinkUsers, LinkTimes)
    \/ Run

SpecMerge == Init /\ [][NextMerge]_vars

(***************************************************************************)
(* Comments: issues with comments of several users, with and without a     *)
(* timestamp, and state events.                                            *)
(***************************************************************************)
NextComments ==
    \/ LoadIssue
    \/ LoadComment({NoneUser, alice, bob}, {NoneT, EmptyT} \cup (1..MaxTime))
    \/ LoadStateEvent
    \/ Run

SpecComments == Init /\ [][NextComments]_vars

(***************************************************************************)
(* Mentions: issues with mentions and with comments of every kind (of the  *)
(* issue, of a review, of a dismissal), from the creation of the issue to  *)
(* some seconds later.                                                     *)
(***************************************************************************)
NextMentions ==
    \/ LoadIssue
    \/ LoadComment({bob}, LateTimes)
    \/ LoadEvent(MentionEvents, {carol}, LateTimes, {""})
    \/ LoadReview({0}, {bob}, {MaxTime + 1})
    \/ LoadReviewComment({bob}, {MaxTime + 2})
    \/ LoadDismissal({0}, {bob}, {MaxTime + 1}, {"", "outdated"})
    \/ Run

SpecMentions == Init /\ [][NextMentions]_vars

(***************************************************************************)
(* Reviews: issues with reviews and review_dismissed events, with equal    *)
(* and with different review identifiers.                                  *)
(***************************************************************************)
ReviewIds == {1, 2}

NextReviews ==
    \/ LoadIssue
    \/ LoadReview(ReviewIds, LinkUsers, EventTimes)
    \/ LoadDismissal(ReviewIds, LinkUsers, EventTimes, {""})
    \/ Run

SpecReviews == Init /\ [][NextReviews]_vars

(***************************************************************************)
(* The legacy module issues/issue_tracking_data.py: load and reformat of   *)
(* the same issues.json.  Comments carry their timestamp in created_at.    *)
(***************************************************************************)
\* a comment or a mentioned event of the issue read last
LegacyLoadEntry ==
    /\ phase = "input"
    /\ issues_json # <<>>
    /\ SumFragments(issues_json) < MaxEntries
    /\ \E list \in {"commentsList", "eventsList"}, user \in {NoneUser, bob}, time \in EventTimes :
          LET i == Len(issues_json)
              k == Len(issues_json[i][list]) + 1
              entry == IF list = "commentsList"
                           THEN NewEvent(<<i, "comment", k>>, "", user)
                           ELSE NewEvent(<<i, "event", k>>, "mentioned", user)
          IN LoadInto(list, [entry EXCEPT !.created_at = time])

check_event(event1, comment) ==
    IF IsMention(event1) /\ comment.event = "commented"
        THEN [event1 EXCEPT !.ref_target = event1.user, !.user = comment.user]
        ELSE event1

\* list.remove(x): the first element that is equal to x
remove_first(list, x) ==
    LET k == CHOOSE j \in 1..Len(list) : list[j] = x /\ \A h \in 1..(j - 1) : list[h] # x
    IN SubSeq(list, 1, k - 1) \o SubSeq(list, k + 1, Len(list))

\* for event in eventsList: if event["user"] is None: eventsList.remove(event)
\* The loop reads the list by position n while the list shrinks.
RECURSIVE remove_while_iterating(_, _)
remove_while_iterating(eventsList, n) ==
    IF n > Len(eventsList) THEN eventsList
    ELSE IF eventsList[n].user = NoneUser
        THEN remove_while_iterating(remove_first(eventsList, eventsList[n]), n + 1)
        ELSE remove_while_iterating(eventsList, n + 1)

\* the body of the first loop of reformat, for the issue at index i
legacy_reformat_issue(issue, i) ==
    LET created == [NewEvent(<<i, "created", 0>>, "created", issue.user)
                       EXCEPT !.created_at = issue.created_at]
        eventsList == Append(issue.eventsList, created)
        commentsList == [k \in 1..Len(issue.commentsList) |->
                            [issue.commentsList[k] EXCEPT !.event = "commented",
                                                          !.ref_target = EmptyStr]]
        events == [k \in 1..Len(eventsList) |->
                      LET event == [eventsList[k] EXCEPT !.ref_target = EmptyStr]
                      IN IF HasCommentAt(commentsList, event.created_at)
                             THEN check_event(event, CommentAt(commentsList, event.created_at))
                             ELSE event]
    IN [issue EXCEPT !.eventsList = remove_while_iterating(commentsList \o events, 1),
                     !.commentsList = commentsList]

\* reformat: the first loop, then the second loop that removes again
legacy_reformat(issues) ==
    [i \in 1..Len(issues) |->
        LET issue == legacy_reformat_issue(issues[i], i)
        IN [issue EXCEPT !.eventsList = remove_while_iterating(@, 1)]]

LegacyReformat ==
    /\ phase = "loaded"
    /\ issue_data' = legacy_reformat(issue_data)
    /\ phase' = "legacy_reformatted"
    /\ UNCHANGED <<issues_json, users, issue_idx, event_idx, user_buffer, id_calls, lines>>
    /\ UNCHANGED jira_vars

NextLegacy ==
    \/ LoadIssue
    \/ LegacyLoadEntry
    \/ Load
    \/ LegacyReformat

SpecLegacy == Init /\ [][NextLegacy]_vars

(***************************************************************************)
(* Label events: issues with labeled and unlabeled events.  The process is *)
(* sequential: once reformat_events has entered its loop, the body of the  *)
(* loop is executed as long as the loop has an event to visit.             *)
(***************************************************************************)
NextLabels ==
    \/ LoadIssue
    \/ LoadEvent(LabelEvents, {bob}, {MaxTime}, RawLabels)
    \/ Run

\* Weak fairness of the loop body, WF_vars(ReformatEvent), with its ENABLED
\* written out: ReformatEvent is enabled exactly in phase "reformat_events",
\* and each of its steps changes phase, issue_idx or event_idx.
ReformatEventFair ==
    []<>(phase # "reformat_events") \/ []<><<ReformatEvent>>_vars

SpecLabels == Init /\ [][NextLabels]_vars /\ ReformatEventFair

(***************************************************************************)
(* Incomplete input: missing and unparsable timestamps, missing lists,     *)
(* label events without label, users without name, username and e-mail.    *)
(***************************************************************************)
NextIncomplete ==
    \/ LoadIssue
    \/ LoadComment({bob}, RawTimes)
    \/ LoadEvent(RawEvents, RawUsers, RawTimes, {""})
    \/ LoadEvent(LabelEvents, {bob}, {1}, {NoneLabel, "question"})
    \/ LoadMissingList
    \/ Run

SpecIncomplete == Init /\ [][NextIncomplete]_vars

(***************************************************************************)
(* Identity resolution: a run of the GitHub front end or a run of the JIRA *)
(* front end.                                                              *)
(***************************************************************************)
\* a run of the JIRA front end with the flag --skip_history or without it
InitJiraRun(skip) ==
    /\ issues_json = <<>>
    /\ issue_data = <<>>
    /\ phase = "off"
    /\ users = EmptyDict
    /\ issue_idx = 0
    /\ event_idx = 0
    /\ user_buffer = EmptyBuffer
    /\ id_calls = NoCalls
    /\ lines = <<>>
    /\ jira_files = <<>>
    /\ jira_phase = "input"
    /\ file_idx = 0
    /\ jira_issues = <<>>
    /\ user_id_buffer = NoCalls
    /\ jira_id_calls = <<>>
    /\ jira_lines = <<>>
    /\ skip_history = skip
    /\ api_idx = 0
    /\ jira_request_counter = 0
    /\ requests_sent = 0

InitJira == InitJiraRun(TRUE)

InitIdentity == Init \/ InitJira

NextIdentity ==
    \/ LoadIssue
    \/ LoadComment({alice, bob}, {MaxTime})
    \/ LoadMentionEvent
    \/ Run
    \/ JiraLoadFile
    \/ JiraLoadIssue(JiraUsers, {"Open"})
    \/ JiraLoadComment(JiraUsers, {1})
    \/ JiraRun
    \/ JiraParseXml
    \/ JiraInsertUserData
    \/ JiraPrintToDisk

SpecIdentity == InitIdentity /\ [][NextIdentity]_vars

(***************************************************************************)
(* Resolver failure: getPersonID or getPersonFromDB of the id service      *)
(* raises.  Neither front end catches the exception, so it leaves          *)
(* insert_user_data and run().  The issues updated in place before the     *)
(* failing call are not read again.                                        *)
(***************************************************************************)
\* the GitHub front end calls the resolver for the author of the first issue
ResolverFails ==
    /\ phase = "events_reformatted"
    /\ issue_data # <<>>
    /\ phase' = "error"
    /\ UNCHANGED <<issues_json, issue_data, users, issue_idx, event_idx, user_buffer,
                   id_calls, lines>>
    /\ UNCHANGED jira_vars

\* the JIRA front end calls the resolver inside the loop over the files
JiraResolverFails ==
    /\ ReadyForUserData
    /\ jira_issues # <<>>
    /\ jira_phase' = "error"
    /\ UNCHANGED <<jira_files, file_idx, jira_issues, user_id_buffer, jira_id_calls,
                   jira_lines>>
    /\ UNCHANGED github_vars
    /\ UNCHANGED api_vars

NextResolver ==
    \/ LoadIssue
    \/ LoadComment({bob}, {MaxTime})
    \/ Run
    \/ ResolverFails
    \/ JiraLoadFile
    \/ JiraLoadIssue(JiraUsers, {"Open"})
    \/ JiraLoadComment(JiraUsers, {1})
    \/ JiraRun
    \/ JiraParseXml
    \/ JiraInsertUserData
    \/ JiraResolverFails
    \/ JiraPrintToDisk

SpecResolver == InitIdentity /\ [][NextResolver]_vars

(***************************************************************************)
(* JIRA front end: files of issues with comments and status changes, with  *)
(* the history loaded via the api or skipped.                              *)
(***************************************************************************)
InitHistory == InitJiraRun(TRUE) \/ InitJiraRun(FALSE)

NextHistory ==
    \/ JiraLoadFile
    \/ JiraLoadIssue({bob}, JiraStates)
    \/ JiraLoadComment({bob}, 1..MaxTime)
    \/ JiraLoadChange
    \/ JiraRun
    \/ JiraParseXml
    \/ JiraLoadIssueViaApi
    \/ JiraApiIssue
    \/ JiraInsertUserData
    \/ JiraPrintToDisk

SpecHistory == InitHistory /\ [][NextHistory]_vars

(***************************************************************************)
(* Properties of the GitHub front end.                                     *)
(***************************************************************************)
Merged ==
    phase \in {"merged", "reformat_events", "events_reformatted", "users_inserted", "done"}

ReformatDone == phase \in {"events_reformatted", "users_inserted", "done"}

MaxOf(S) == CHOOSE x \in S : \A y \in S : y <= x

IsRawOid(oid) == oid[2] \in {"comment", "event", "relatedIssue", "relatedCommit", "review"}

ListOfOid(oid) ==
    CASE oid[2] = "comment" -> "commentsList"
      [] oid[2] = "event" -> "eventsList"
      [] oid[2] = "relatedIssue" -> "relatedIssues"
      [] oid[2] = "relatedCommit" -> "relatedCommits"
      [] oid[2] = "review" -> "reviewsList"

\* the fragment of issues.json that the object oid was loaded from
RawFragment(oid) == issues_json[oid[1]][ListOfOid(oid)][oid[3]]

\* the name the event had in issues.json ("" for everything but raw events)
RawKind(event) == IF event.oid[2] = "event" THEN RawFragment(event.oid).event ELSE ""

IsBackfilled(event) == event.oid[2] = "referenced_by"

IsSynthesized(event) == event.oid[2] \in {"type_updated", "resolution_updated"}

IsSortedByTime(eventsList) ==
    \A j \in 1..(Len(eventsList) - 1) : eventsList[j].created_at <= eventsList[j + 1].created_at

\* C1: after merge_issue_events and reformat_events, every issue's eventsList,
\* backfilled referenced_by events and synthesized type_updated and
\* resolution_updated events included, is non-decreasing in created_at.
C1_TimelineSorted ==
    ReformatDone => \A i \in 1..Len(issue_data) : IsSortedByTime(issue_data[i].eventsList)

\* a timeline with a backfilled and a synthesized event, in which an event loaded
\* from the issue itself is later than the backfilled one and follows it
C1_Witness ==
    /\ ReformatDone
    /\ \E i \in 1..Len(issue_data) :
          LET evs == issue_data[i].eventsList
          IN \E a, b, c \in 1..Len(evs) :
                /\ IsBackfilled(evs[a])
                /\ IsSynthesized(evs[b])
                /\ IsRawOid(evs[c].oid)
                /\ evs[a].created_at < evs[c].created_at
                /\ a < c

\* C2: in every issue's final timeline the created event is the first element.
C2_CreatedFirst ==
    ReformatDone =>
        \A i \in 1..Len(issue_data) :
            \A j \in 1..Len(issue_data[i].eventsList) :
                issue_data[i].eventsList[j].event = "created" => j = 1

\* the running state after the closed and reopened events among the first n events
RunningState(eventsList, n) ==
    LET ks == {k \in 1..n : RawKind(eventsList[k]) \in StateEvents}
    IN IF ks = {} THEN "open"
       ELSE IF RawKind(eventsList[MaxOf(ks)]) = "closed" THEN "closed" ELSE "reopened"

\* the running state after the closed and reopened events strictly earlier than time
StateBefore(eventsList, time) ==
    LET ks == {k \in 1..Len(eventsList) :
                  RawKind(eventsList[k]) \in StateEvents /\ eventsList[k].created_at < time}
    IN IF ks = {} THEN "open"
       ELSE IF RawKind(eventsList[MaxOf(ks)]) = "closed" THEN "closed" ELSE "reopened"

\* C3: the event_info_1 of every commented event is the running state produced by
\* the closed and reopened events of the issue that are strictly earlier: open when
\* there is none, else closed or reopened according to the latest of them.
C3_CommentState ==
    ReformatDone =>
        \A i \in 1..Len(issue_data) :
            LET evs == issue_data[i].eventsList
            IN \A j \in 1..Len(evs) :
                  evs[j].event = "commented" =>
                      evs[j].event_info_1 = StateBefore(evs, evs[j].created_at)

\* a comment written after the issue was closed and reopened, and one written at
\* the time of a state change
C3_Witness ==
    /\ ReformatDone
    /\ \E i \in 1..Len(issue_data) :
          LET evs == issue_data[i].eventsList
          IN \E j, k \in 1..Len(evs) :
                /\ evs[j].event = "commented"
                /\ evs[j].event_info_1 = "reopened"
                /\ evs[k].event = "state_updated"
                /\ evs[k].created_at < evs[j].created_at

IsResolutionLabelEvent(event) ==
    RawKind(event) \in LabelEvents /\ Lower(RawFragment(event.oid).label) \in known_resolutions

RECURSIVE ResolutionAfter(_, _)
\* the resolution labels accumulated from the first n of the label events
ResolutionAfter(label_events, n) ==
    IF n = 0 THEN <<>>
    ELSE LET label == Lower(RawFragment(label_events[n].oid).label)
             before == ResolutionAfter(label_events, n - 1)
         IN IF RawKind(label_events[n]) = "labeled"
                THEN Append(before, label)
                ELSE SelectSeq(before, LAMBDA l : l # label)

ResolutionBefore(eventsList, time) ==
    LET earlier == SelectSeq(eventsList,
                             LAMBDA e : IsResolutionLabelEvent(e) /\ e.created_at < time)
    IN ResolutionAfter(earlier, Len(earlier))

\* C4: the resolution snapshot of every commented event, as it is written to the
\* output, is the list of resolution labels accumulated from the labeled and
\* unlabeled events strictly earlier than the comment.
C4_CommentResolutionSnapshot ==
    phase = "done" =>
        \A i \in 1..Len(issue_data) :
            LET evs == issue_data[i].eventsList
            IN \A j \in 1..Len(evs) :
                  evs[j].event = "commented" =>
                      json_dumps_info_2(issue_data[i], evs[j])
                          = ListLit(ResolutionBefore(evs, evs[j].created_at))

\* C6: a fragment of an issue whose user is null is not in the issue's timeline
\* from merge_issue_events on, and so not in the output.
C6_NoNullUserFragment ==
    Merged =>
        \A i \in 1..Len(issue_data) :
            \A j \in 1..Len(issue_data[i].eventsList) :
                LET event == issue_data[i].eventsList[j]
                IN IsRawOid(event.oid) => RawFragment(event.oid).user # NoneUser

\* the output is written for an issue with a comment and a raw event without user
C6_Witness ==
    /\ phase = "done"
    /\ \E i \in 1..Len(issues_json) :
          /\ \E k \in 1..Len(issues_json[i].commentsList) :
                issues_json[i].commentsList[k].user = NoneUser
          /\ \E k \in 1..Len(issues_json[i].eventsList) :
                issues_json[i].eventsList[k].user = NoneUser

IsRawMention(i, k) ==
    /\ issues_json[i].eventsList[k].event \in MentionEvents
    /\ issues_json[i].eventsList[k].user # NoneUser

\* the event of the timeline of issue i that was loaded as eventsList[k]
HasRewrittenMention(i, k, actor, target) ==
    \E j \in 1..Len(issue_data[i].eventsList) :
        LET event == issue_data[i].eventsList[j]
        IN /\ event.oid = <<i, "event", k>>
           /\ event.user.username = actor.username
           /\ event.ref_target.py = "dict"
           /\ event.ref_target.username = target.username

\* C7 as stated: a mentioned or subscribed event of user B at the time of a
\* comment by author A is in the timeline with actor A and target B, also when
\* several comments of the issue have this time.
C7_MentionRewrittenToAnyCommentAuthor ==
    ReformatDone =>
        \A i \in 1..Len(issues_json) :
            \A c \in 1..Len(issues_json[i].commentsList), k \in 1..Len(issues_json[i].eventsList) :
                LET comment == issues_json[i].commentsList[c]
                    mention == issues_json[i].eventsList[k]
                IN (/\ IsRawMention(i, k)
                    /\ comment.user # NoneUser
                    /\ format_time(comment.referenced_at) = format_time(mention.created_at))
                   => HasRewrittenMention(i, k, comment.user, mention.user)

\* the authors of the comments of issue i at the given time, in the order
\* merge_issue_events caches them: the comments of the input, the creation
\* comment, the initial comments of the reviews
CommentAuthorsAt(i, time) ==
    LET issue == issues_json[i]
        of_comments == SelectSeq(issue.commentsList,
                                 LAMBDA c : format_time(c.referenced_at) = time)
        of_reviews == SelectSeq(issue.reviewsList,
                                LAMBDA r : r.hasReviewInitialComment
                                               /\ format_time(r.submitted_at) = time)
    IN [k \in 1..Len(of_comments) |-> of_comments[k].user]
           \o (IF format_time(issue.created_at) = time THEN <<issue.user>> ELSE <<>>)
           \o [k \in 1..Len(of_reviews) |-> of_reviews[k].user]

\* C7 amended: a mentioned or subscribed event of user B at time t0 is in the
\* timeline with target B and, as actor, the author of the comment cached last
\* for t0; this is A when A wrote every comment of the issue at t0.
C7_MentionRewrittenToLastCommentAuthor ==
    ReformatDone =>
        \A i \in 1..Len(issues_json) :
            \A k \in 1..Len(issues_json[i].eventsList) :
                LET mention == issues_json[i].eventsList[k]
                    authors == CommentAuthorsAt(i, format_time(mention.created_at))
                IN (/\ IsRawMention(i, k)
                    /\ authors # <<>>
                    /\ Last(authors) # NoneUser)
                   => HasRewrittenMention(i, k, Last(authors), mention.user)

\* a mention of carol at the time of a comment by bob and of another comment, by
\* another author, cached before it; the event has actor bob and target carol
C7_Witness ==
    /\ ReformatDone
    /\ \E i \in 1..Len(issues_json) :
          \E k \in 1..Len(issues_json[i].eventsList) :
              LET mention == issues_json[i].eventsList[k]
                  authors == CommentAuthorsAt(i, format_time(mention.created_at))
              IN /\ IsRawMention(i, k)
                 /\ Len(authors) >= 2
                 /\ authors[1] # Last(authors)
                 /\ Last(authors) = bob
                 /\ HasRewrittenMention(i, k, bob, carol)

Visited(i) ==
    IF phase = "merged" THEN 0
    ELSE IF phase = "reformat_events"
        THEN IF i < issue_idx THEN Len(issue_data[i].eventsList)
             ELSE IF i = issue_idx THEN event_idx - 1
             ELSE 0
    ELSE Len(issue_data[i].eventsList)

C9_RunningState ==
    Merged =>
        \A i \in 1..Len(issue_data) :
            LET evs == issue_data[i].eventsList
            IN /\ issue_data[i].state_new \in {"open", "closed", "reopened"}
               /\ issue_data[i].state_new = RunningState(evs, Visited(i))
               /\ \A j \in 1..Visited(i) :
                     RawKind(evs[j]) = "reopened" =>
                         /\ evs[j].event = "state_updated"
                         /\ evs[j].event_info_1 = "open"
                         /\ evs[j].event_info_2 = Str("closed")

\* the pass is at an issue that is reopened while events are left to visit, and
\* another issue of the batch is still open
C9_Witness ==
    /\ phase = "reformat_events"
    /\ issue_data[issue_idx].state_new = "reopened"
    /\ event_idx <= Len(issue_data[issue_idx].eventsList)
    /\ \E i \in 1..Len(issue_data) : issue_data[i].state_new = "open"

LabelOf(event) == Lower(RawFragment(event.oid).label)

IsSynthesizedFor(s, event, name, new, old) ==
    /\ s.event = name
    /\ s.user = event.user
    /\ s.created_at = event.created_at
    /\ s.event_info_1 = new
    /\ s.event_info_2 = Str(old)

\* C10: for every labeled event with a label of the known types the timeline has
\* a type_updated event with the same actor and timestamp, event_info_1 the
\* label and event_info_2 empty; for every unlabeled event one with event_info_1
\* empty and event_info_2 the label; likewise resolution_updated for the known
\* resolutions; other labels synthesize nothing and leave type and resolution.
C10_LabelEventsSynthesized ==
    ReformatDone =>
        \A i \in 1..Len(issue_data) :
            LET evs == issue_data[i].eventsList
                name(label) == IF label \in known_types THEN "type_updated"
                               ELSE "resolution_updated"
                known == {j \in 1..Len(evs) :
                             /\ RawKind(evs[j]) \in LabelEvents
                             /\ LabelOf(evs[j]) \in known_types \cup known_resolutions}
            IN /\ \A j \in known :
                     \E k \in 1..Len(evs) :
                         IF RawKind(evs[j]) = "labeled"
                             THEN IsSynthesizedFor(evs[k], evs[j], name(LabelOf(evs[j])),
                                                   LabelOf(evs[j]), "")
                             ELSE IsSynthesizedFor(evs[k], evs[j], name(LabelOf(evs[j])),
                                                   "", LabelOf(evs[j]))
               /\ Cardinality({k \in 1..Len(evs) :
                                  evs[k].event \in {"type_updated", "resolution_updated"}})
                      = Cardinality(known)
               /\ (\A j \in known : LabelOf(evs[j]) \notin known_types)
                      => issue_data[i].type = <<"issue">>
               /\ (\A j \in known : LabelOf(evs[j]) \notin known_resolutions)
                      => issue_data[i].resolution = <<>>

\* a timeline in which the label Bug was added and removed and a label of
\* neither vocabulary was added
C10_Witness ==
    /\ ReformatDone
    /\ \E i \in 1..Len(issue_data) :
          LET evs == issue_data[i].eventsList
          IN \E a, b, c \in 1..Len(evs) :
                /\ evs[a].event = "type_updated" /\ evs[a].event_info_1 = "bug"
                /\ evs[b].event = "type_updated" /\ evs[b].event_info_2 = Str("bug")
                /\ RawKind(evs[c]) = "labeled" /\ LabelOf(evs[c]) = "question"

(***************************************************************************)
(* Properties of the identity buffers.                                     *)
(***************************************************************************)
\* the identities insert_user_data of the GitHub front end looks up, in order
RECURSIVE IdentitiesOf(_, _)
IdentitiesOf(issues, n) ==
    IF n = 0 THEN <<>>
    ELSE LET evs == issues[n].eventsList
         IN IdentitiesOf(issues, n - 1) \o <<issues[n].user>>
                \o Flatten([k \in 1..Len(evs) |->
                               IF evs[k].ref_target # EmptyStr
                                   THEN <<evs[k].user, evs[k].ref_target>>
                                   ELSE <<evs[k].user>>])

SignatureOf(user) == get_user_string(user.name, user.email)

RECURSIVE JiraAuthorsOf(_, _)
\* the authors of the issues and comments of a file, in the order of the lookups
JiraAuthorsOf(issues, n) ==
    IF n = 0 THEN <<>>
    ELSE JiraAuthorsOf(issues, n - 1) \o <<issues[n].author>>
            \o [k \in 1..Len(issues[n].comments) |-> issues[n].comments[k].author]

JiraSignatureOf(user) ==
    get_user_string(IF user.name # "" THEN user.name ELSE user.username, user.email)

RECURSIVE CallsInRun(_, _)
\* the getPersonID calls for a user string in all calls of insert_user_data so far
CallsInRun(user_string, n) ==
    IF n = 0 THEN 0
    ELSE CallsInRun(user_string, n - 1)
            + (IF user_string \in DOMAIN jira_id_calls[n]
                   THEN jira_id_calls[n][user_string] ELSE 0)

C5_OncePerCall ==
    /\ \A user_string \in DOMAIN id_calls : id_calls[user_string] <= 1
    /\ \A n \in 1..Len(jira_id_calls) :
          \A user_string \in DOMAIN jira_id_calls[n] : jira_id_calls[n][user_string] <= 1

C5_GitHubSameIdentity ==
    (phase = "events_reformatted" /\ phase' = "users_inserted") =>
        LET before == IdentitiesOf(issue_data, Len(issue_data))
            after == IdentitiesOf(issue_data', Len(issue_data'))
        IN /\ Len(after) = Len(before)
           /\ \A a, b \in 1..Len(before) :
                 SignatureOf(before[a]) = SignatureOf(before[b]) => after[a] = after[b]

C5_JiraSameIdentity ==
    jira_phase = "users_inserted" =>
        LET before == JiraAuthorsOf(jira_files[file_idx], Len(jira_files[file_idx]))
            after == JiraAuthorsOf(jira_issues, Len(jira_issues))
        IN /\ Len(after) = Len(before)
           /\ \A a, b \in 1..Len(before) :
                 JiraSignatureOf(before[a]) = JiraSignatureOf(before[b]) => after[a] = after[b]

LabelEventsFor(eventsList, label) ==
    {j \in 1..Len(eventsList) :
        RawKind(eventsList[j]) \in LabelEvents /\ LabelOf(eventsList[j]) = label}

\* C11: after the pass of reformat_events a label of the known types is in the
\* issue's type collection if and only if the last labeled or unlabeled event
\* for it in the timeline is labeled, also when it was labeled more than once.
C11_TypeIsSet ==
    ReformatDone =>
        \A i \in 1..Len(issue_data) :
            \A label \in known_types :
                LET evs == issue_data[i].eventsList
                    ks == LabelEventsFor(evs, label)
                IN (label \in Range(issue_data[i].type))
                       <=> (ks # {} /\ RawKind(evs[MaxOf(ks)]) = "labeled")

(***************************************************************************)
(* Properties of the cross-issue backfill.                                 *)
(***************************************************************************)
\* the relatedIssues entries of the batch, as <<issue index, position>>
Links ==
    UNION {{<<x, k>> : k \in 1..Len(issues_json[x].relatedIssues)} : x \in 1..Len(issues_json)}

LinkOf(l) == issues_json[l[1]].relatedIssues[l[2]]

LinksTo(number) == {l \in Links : LinkOf(l).number = number}

BatchNumbers == {issues_json[x].number : x \in 1..Len(issues_json)}

\* the positions of the referenced_by events for issues in a timeline
ReferencedByIssue(eventsList) ==
    {j \in 1..Len(eventsList) :
        eventsList[j].event = "referenced_by" /\ eventsList[j].event_info_2 = Str("issue")}

\* C12: the referenced_by events for issues in the timeline of an issue Y are,
\* one for one, the relatedIssues entries of the batch that name Y's number, each
\* with the timestamp and the user of the link and with the number of the linking
\* issue in event_info_1; an entry that names no issue of the batch adds no event
\* and does not end the run.
C12_BackfillExact ==
    /\ Merged =>
          \A y \in 1..Len(issue_data) :
              LET evs == issue_data[y].eventsList
                  js == ReferencedByIssue(evs)
                  links == LinksTo(issue_data[y].number)
              IN /\ \A j \in js :
                        /\ evs[j].oid[2] = "referenced_by"
                        /\ <<evs[j].oid[1], evs[j].oid[3]>> \in links
                        /\ evs[j].created_at = format_time(LinkOf(<<evs[j].oid[1], evs[j].oid[3]>>).referenced_at)
                        /\ evs[j].user.py = LinkOf(<<evs[j].oid[1], evs[j].oid[3]>>).user.py
                        /\ evs[j].user.username = LinkOf(<<evs[j].oid[1], evs[j].oid[3]>>).user.username
                        /\ evs[j].event_info_1 = issues_json[evs[j].oid[1]].number
                 /\ \A l \in links :
                        Cardinality({j \in js : evs[j].oid = <<l[1], "referenced_by", l[2]>>}) = 1
    /\ phase = "error" =>
          \E l \in Links : LinkOf(l).number \in BatchNumbers /\ LinkOf(l).user = NoneUser

\* the output is written for a batch in which an issue links to another issue of
\* the batch and to an issue outside of it
C12_Witness ==
    /\ phase = "done"
    /\ \E l \in Links : LinkOf(l).number \notin BatchNumbers
    /\ \E y \in 1..Len(issue_data) :
          \E j \in ReferencedByIssue(issue_data[y].eventsList) :
              issue_data[y].eventsList[j].oid[1] # y

(***************************************************************************)
(* Properties of the output records.                                       *)
(***************************************************************************)
RECURSIVE LabelsAfter(_, _, _)
\* the labels of a vocabulary accumulated from the first n events of a timeline
LabelsAfter(eventsList, n, vocabulary) ==
    IF n = 0 THEN <<>>
    ELSE LET before == LabelsAfter(eventsList, n - 1, vocabulary)
             event == eventsList[n]
         IN IF RawKind(event) \in LabelEvents /\ LabelOf(event) \in vocabulary
                THEN IF RawKind(event) = "labeled" THEN Append(before, LabelOf(event))
                     ELSE IF list_remove_raises(before, LabelOf(event)) THEN before
                     ELSE list_remove(before, LabelOf(event))
                ELSE before

RawEventsOf(i) == {k \in 1..Len(issues_json[i].eventsList) : TRUE}

RawCommentsOf(i) == {k \in 1..Len(issues_json[i].commentsList) : TRUE}

\* every timestamp of the input is empty, null or can be parsed
TimesParsable ==
    \A i \in 1..Len(issues_json) :
        /\ \A k \in RawCommentsOf(i) : issues_json[i].commentsList[k].referenced_at # BadT
        /\ \A k \in RawEventsOf(i) : issues_json[i].eventsList[k].created_at # BadT

\* every raw event has a timestamp
EventsTimed ==
    \A i \in 1..Len(issues_json) :
        \A k \in RawEventsOf(i) : issues_json[i].eventsList[k].created_at \notin {NoneT, EmptyT}

ListsPresent ==
    \A i \in 1..Len(issues_json) : issues_json[i].absent \cup issues_json[i].null = {}

UsersNamed ==
    \A i \in 1..Len(issues_json) :
        \A k \in RawEventsOf(i) : issues_json[i].eventsList[k].user # EmptyUser

LabelsPresent ==
    \A i \in 1..Len(issues_json) :
        \A k \in RawEventsOf(i) : issues_json[i].eventsList[k].label # NoneLabel

InTimeline(i, oid) ==
    \E j \in 1..Len(issue_data[i].eventsList) : issue_data[i].eventsList[j].oid = oid

\* merge_issue_events has built the timeline of issue i
TimelineBuilt(i) == InTimeline(i, <<i, "created", 0>>)

AfterMerge == phase \notin {"input", "loaded", "reformatted"}

\* C14: a timestamp that is null, empty or cannot be parsed becomes the empty
\* timestamp without an exception: a comment with such a timestamp is in the
\* timeline with an empty created_at (input that is complete otherwise).
C14_TimestampTolerated ==
    (AfterMerge /\ EventsTimed /\ ListsPresent) =>
        \A i \in 1..Len(issues_json) :
            \A k \in RawCommentsOf(i) :
                issues_json[i].commentsList[k].referenced_at \in {NoneT, EmptyT, BadT} =>
                    \E j \in 1..Len(issue_data[i].eventsList) :
                        /\ issue_data[i].eventsList[j].oid = <<i, "comment", k>>
                        /\ issue_data[i].eventsList[j].created_at = EmptyT

\* C15: a raw event whose created_at is null or empty passes merge_issue_events:
\* it is in the merged timeline of its issue, whether or not a comment of the
\* issue has an empty timestamp (input that is complete otherwise).
C15_EventWithoutTimePasses ==
    (AfterMerge /\ TimesParsable /\ ListsPresent) =>
        \A i \in 1..Len(issues_json) :
            \A k \in RawEventsOf(i) :
                issues_json[i].eventsList[k].created_at \in {NoneT, EmptyT} =>
                    TimelineBuilt(i) /\ InTimeline(i, <<i, "event", k>>)

\* C16: an event with an empty timestamp is not before the created event of the
\* final timeline and not after an event that is later than the creation time.
C16_EmptyTimeAtCreation ==
    ReformatDone =>
        \A i \in 1..Len(issue_data) :
            LET evs == issue_data[i].eventsList
            IN \A j \in 1..Len(evs) :
                  evs[j].created_at = EmptyT =>
                      /\ \A c \in 1..Len(evs) : evs[c].event = "created" => c < j
                      /\ \A k \in 1..Len(evs) :
                            evs[k].created_at > issue_data[i].created_at => j < k

\* C17: an issue record in which a list is null or missing passes reformat_issues
\* and merge_issue_events: its timeline is built, with the created event (input
\* that is complete otherwise).
C17_MissingListsTolerated ==
    (AfterMerge /\ TimesParsable /\ EventsTimed) =>
        \A i \in 1..Len(issues_json) :
            issues_json[i].absent \cup issues_json[i].null # {} => TimelineBuilt(i)

\* C18: a labeled or unlabeled event whose label is null does not end the run
\* and changes neither type nor resolution (input that is complete otherwise).
C18_LabelEventWithoutLabelSkipped ==
    (TimesParsable /\ EventsTimed /\ ListsPresent /\ UsersNamed) =>
        /\ phase # "error"
        /\ ReformatDone =>
              \A i \in 1..Len(issue_data) :
                  /\ issue_data[i].type = <<"issue">>
                  /\ issue_data[i].resolution = <<>>
                  /\ \A j \in 1..Len(issue_data[i].eventsList) :
                        ~IsSynthesized(issue_data[i].eventsList[j])

\* C19: an event whose user or target has an empty name, username and e-mail is
\* not in the timeline after merge_issue_events and does not end the run (input
\* that is complete otherwise).
C19_EmptyActorDropped ==
    (TimesParsable /\ EventsTimed /\ ListsPresent /\ LabelsPresent) =>
        /\ phase # "error"
        /\ Merged =>
              \A i \in 1..Len(issue_data) :
                  \A j \in 1..Len(issue_data[i].eventsList) :
                      /\ issue_data[i].eventsList[j].user # EmptyUser
                      /\ issue_data[i].eventsList[j].ref_target # EmptyUser

\* C20: when the identity resolver raises, the run is aborted and no output
\* record of the run has been written, in the GitHub front end and in the
\* JIRA front end, whatever the number of issues or files processed before.
C20_NoOutputAfterResolverFailure ==
    /\ phase = "error" => lines = <<>>
    /\ jira_phase = "error" => jira_lines = <<>>

\* the name and e-mail address that the id service returns for a user
ResolvedUser(user) ==
    get_or_update_user(user, [buffer |-> EmptyBuffer, calls |-> NoCalls]).user

\* lines[l] is the `commented` record of comment k of issue i
IsRecordOfComment(l, i, k) ==
    LET comment == issues_json[i].commentsList[k]
    IN /\ lines[l].number = issues_json[i].number
       /\ lines[l].event = "commented"
       /\ lines[l].name = ResolvedUser(comment.user).name
       /\ lines[l].email = ResolvedUser(comment.user).email
       /\ lines[l].date = format_time(comment.referenced_at)

DifferInActorAndTime(i, k1, k2) ==
    LET c1 == issues_json[i].commentsList[k1]
        c2 == issues_json[i].commentsList[k2]
    IN /\ k1 # k2
       /\ c1.user # NoneUser /\ c2.user # NoneUser
       /\ c1.user # c2.user
       /\ c1.referenced_at # c2.referenced_at

\* C21: two comments of one issue that differ in actor and in timestamp have
\* two distinct `commented` records in the written output, each with its own
\* actor and timestamp; the removal of duplicate lines never merges them.
C21_CommentsStayDistinct ==
    phase = "done" =>
        \A i \in 1..Len(issues_json) :
            \A k1, k2 \in RawCommentsOf(i) :
                DifferInActorAndTime(i, k1, k2) =>
                    \E l1, l2 \in 1..Len(lines) :
                        /\ l1 # l2
                        /\ lines[l1] # lines[l2]
                        /\ IsRecordOfComment(l1, i, k1)
                        /\ IsRecordOfComment(l2, i, k2)

\* two such comments were written, next to a third comment that the removal
\* of duplicate lines did merge with one of them
C21_Witness ==
    /\ phase = "done"
    /\ \E i \in 1..Len(issues_json) :
          \E k1, k2, k3 \in RawCommentsOf(i) :
              /\ DifferInActorAndTime(i, k1, k2)
              /\ k3 # k1 /\ k3 # k2
              /\ issues_json[i].commentsList[k3].user = issues_json[i].commentsList[k2].user
              /\ issues_json[i].commentsList[k3].referenced_at
                    = issues_json[i].commentsList[k2].referenced_at
              /\ Len(lines) < Len(issue_data[i].eventsList)

\* the lines written for an issue, in the order of the result file
JiraLinesOf(externalId) == SelectSeq(jira_lines, LAMBDA l : l.externalId = externalId)

JiraIssueIds == {jira_lines[l].externalId : l \in 1..Len(jira_lines)}

\* the issue of the input with this id
JiraRawIssue(externalId) == jira_files[externalId[1]][externalId[2]]

\* JIRA delivers the comments and the changelog of an issue in time order
DeliveredInTimeOrder(issue) ==
    /\ \A a, b \in 1..Len(issue.comments) :
          a < b => issue.comments[a].created <= issue.comments[b].created
    /\ \A a, b \in 1..Len(issue.changelog) :
          a < b => issue.changelog[a].created <= issue.changelog[b].created

\* C22: for every issue, the records that the JIRA front end writes (created,
\* creation comment, comments, history events) are non-decreasing in their
\* event timestamp.
C22_JiraRecordsSorted ==
    \A externalId \in JiraIssueIds :
        DeliveredInTimeOrder(JiraRawIssue(externalId)) =>
            LET written == JiraLinesOf(externalId)
            IN \A a, b \in 1..Len(written) : a < b => written[a].date <= written[b].date

\* C23: when reformat_events starts, every event of every issue's eventsList
\* has a user and a ref_target that are not null, the referenced_by events
\* appended for the relatedIssues entries of other issues included.
C23_NoNullUserAtReformatEvents ==
    phase = "merged" =>
        \A i \in 1..Len(issue_data) :
            \A j \in 1..Len(issue_data[i].eventsList) :
                /\ issue_data[i].eventsList[j].user # NoneUser
                /\ issue_data[i].eventsList[j].ref_target # NoneUser

\* the comments of issue i, as pairs of timestamp and author: the comments of
\* the issue, the comment of the creation, the initial comments and the
\* comments of the reviews, the comments of the dismissals
CommentsOfIssue(i) ==
    LET issue == issues_json[i]
    IN {<<issue.commentsList[k].referenced_at, issue.commentsList[k].user>> :
            k \in 1..Len(issue.commentsList)}
       \cup {<<issue.created_at, issue.user>>}
       \cup {<<issue.reviewsList[k].submitted_at, issue.reviewsList[k].user>> :
                k \in {r \in 1..Len(issue.reviewsList) :
                          issue.reviewsList[r].hasReviewInitialComment}}
       \cup UNION {{<<issue.reviewsList[k].reviewComments[c].referenced_at,
                      issue.reviewsList[k].reviewComments[c].user>> :
                        c \in 1..Len(issue.reviewsList[k].reviewComments)} :
                   k \in 1..Len(issue.reviewsList)}
       \cup {<<issue.eventsList[k].created_at, issue.eventsList[k].user>> :
                k \in {e \in 1..Len(issue.eventsList) :
                          /\ issue.eventsList[e].event = "review_dismissed"
                          /\ issue.eventsList[e].dismissalMessage # ""}}

CommentAuthorsOfIssueAt(i, time) == {c[2] : c \in {x \in CommentsOfIssue(i) : x[1] = time}}

\* the event of the timeline of issue i that was made of the raw event k
TimelineEvent(i, k) ==
    LET evs == issue_data[i].eventsList
    IN evs[CHOOSE j \in 1..Len(evs) : evs[j].oid = <<i, "event", k>>]

MentionRewritten(i, k) ==
    /\ TimelineEvent(i, k).ref_target = issues_json[i].eventsList[k].user
    /\ TimelineEvent(i, k).user # issues_json[i].eventsList[k].user

MentionKept(i, k) ==
    /\ TimelineEvent(i, k).ref_target = EmptyStr
    /\ TimelineEvent(i, k).user = issues_json[i].eventsList[k].user

\* C24: a mentioned/subscribed event with timestamp t is rewritten (target :=
\* its user, actor := the author of the comment) if and only if a comment of
\* the same issue, of any kind, has the timestamp t or t minus one second; a
\* comment at t is used before one at t minus one second; an event one second
\* before the only comment nearby keeps its actor and has no target.
C24_MentionRewrittenIffCommentNearby ==
    phase = "merged" =>
        \A i \in 1..Len(issues_json) :
            \A k \in RawEventsOf(i) :
                IsMention(issues_json[i].eventsList[k]) =>
                    LET t == issues_json[i].eventsList[k].created_at
                        at_t == CommentAuthorsOfIssueAt(i, t)
                        before_t == CommentAuthorsOfIssueAt(i, t - 1)
                    IN /\ InTimeline(i, <<i, "event", k>>)
                       /\ (at_t \cup before_t # {}) <=> MentionRewritten(i, k)
                       /\ (at_t \cup before_t = {}) <=> MentionKept(i, k)
                       /\ at_t # {} => TimelineEvent(i, k).user \in at_t
                       /\ (at_t = {} /\ before_t # {}) => TimelineEvent(i, k).user \in before_t

\* a mention one second before the only comment nearby was kept, and another
\* mention was rewritten
C24_Witness ==
    /\ phase = "merged"
    /\ \E i \in 1..Len(issues_json) :
          \E k1, k2 \in RawEventsOf(i) :
              /\ IsMention(issues_json[i].eventsList[k1])
              /\ IsMention(issues_json[i].eventsList[k2])
              /\ CommentAuthorsOfIssueAt(i, issues_json[i].eventsList[k1].created_at + 1) # {}
              /\ MentionKept(i, k1)
              /\ MentionRewritten(i, k2)

\* the review_dismissed events of issue i that name the review identifier
DismissalsOf(i, reviewId) ==
    {k \in RawEventsOf(i) : /\ issues_json[i].eventsList[k].event = "review_dismissed"
                            /\ issues_json[i].eventsList[k].reviewId = reviewId}

\* C25: after merge_issue_events a `reviewed` event has event_info_2 =
\* 'later_dismissed' and event_info_1 = the state carried by a review_dismissed
\* event of the same issue if and only if a review_dismissed event of that
\* issue has the same reviewId; every other `reviewed` event keeps its own
\* lower-cased state in event_info_1 and an empty event_info_2.
C25_ReviewLaterDismissed ==
    phase = "merged" =>
        \A i \in 1..Len(issue_data) :
            \A j \in 1..Len(issue_data[i].eventsList) :
                LET event == issue_data[i].eventsList[j]
                    review == RawFragment(event.oid)
                    dismissals == DismissalsOf(i, review.reviewId)
                IN event.oid[2] = "review" =>
                    /\ event.event = "reviewed"
                    /\ dismissals # {} <=>
                          /\ event.event_info_2 = Str("later_dismissed")
                          /\ \E k \in dismissals :
                                event.event_info_1 = issues_json[i].eventsList[k].state
                    /\ dismissals = {} <=>
                          /\ event.event_info_2 = Str("")
                          /\ event.event_info_1 = Lower(review.state)

\* an issue with a review that was dismissed and a review that was not
C25_Witness ==
    /\ phase = "merged"
    /\ \E i \in 1..Len(issue_data) :
          \E a, b \in 1..Len(issue_data[i].eventsList) :
              /\ issue_data[i].eventsList[a].oid[2] = "review"
              /\ issue_data[i].eventsList[b].oid[2] = "review"
              /\ issue_data[i].eventsList[a].event_info_2 = Str("later_dismissed")
              /\ issue_data[i].eventsList[b].event_info_2 = Str("")

\* load_issue_via_api has returned for the current file
HistoryLoaded == ~skip_history /\ jira_phase \in {"history_loaded", "users_inserted"}

\* the new states of the status changes of the issue that are strictly
\* earlier than the time, with the position of the change in the changelog
StatusChangesBefore(issue, time) ==
    {k \in 1..Len(issue.changelog) : issue.changelog[k].created < time}

\* the latest of these changes: the last one of the latest timestamp
LatestChangeBefore(issue, time) ==
    LET ks == StatusChangesBefore(issue, time)
    IN CHOOSE k \in ks :
          \A j \in ks : \/ issue.changelog[j].created < issue.changelog[k].created
                        \/ issue.changelog[j].created = issue.changelog[k].created /\ j <= k

\* C26: with the history loaded, the state_on_creation of every comment is
\* the new state of the latest status change of the issue that is strictly
\* earlier than the comment, and 'open' when no status change is strictly
\* earlier, also for a comment written at the creation time of the issue.
C26_CommentStateFromHistory ==
    HistoryLoaded =>
        \A n \in 1..Len(jira_issues) :
            \A c \in 1..Len(jira_issues[n].comments) :
                LET issue == jira_files[file_idx][n]
                    comment == issue.comments[c]
                    state == jira_issues[n].comments[c].state_on_creation
                IN IF StatusChangesBefore(issue, comment.created) # {}
                       THEN state = Lower(issue.changelog[
                                        LatestChangeBefore(issue, comment.created)].toString)
                       ELSE state = "open"

\* C27: after reformat of the legacy module no eventsList holds an event whose
\* user is null, whatever the input, several consecutive entries without user
\* included.
C27_LegacyNoNullUser ==
    phase = "legacy_reformatted" =>
        \A i \in 1..Len(issue_data) :
            \A j \in 1..Len(issue_data[i].eventsList) :
                issue_data[i].eventsList[j].user # NoneUser

\* a request is sent to JIRA in this step
RequestSent == requests_sent' # requests_sent \/ jira_request_counter' # jira_request_counter

\* the request of this step is sent without a wait of 24 hours before it
SentWithoutWait == RequestSent /\ requests_sent' = requests_sent + 1

RECURSIVE NumIssues(_)
NumIssues(files) == IF files = <<>> THEN 0 ELSE NumIssues(Front(files)) + Len(Last(files))

SynthesizedVisited ==
    /\ phase = "reformat_events"
    /\ IsSynthesized(issue_data[issue_idx].eventsList[event_idx])
    /\ <<issue_data, issue_idx, event_idx, phase>>' # <<issue_data, issue_idx, event_idx, phase>>

\* the step appends nothing to the timeline of the issue and leaves its state,
\* type and resolution
NothingSynthesized ==
    LET before == issue_data[issue_idx]
        after == issue_data'[issue_idx]
    IN /\ phase' # "error"
       /\ Len(after.eventsList) = Len(before.eventsList)
       /\ after.state_new = before.state_new
       /\ after.type = before.type
       /\ after.resolution = before.resolution

KnownLabelEvents(i) ==
    {k \in RawEventsOf(i) :
        /\ issues_json[i].eventsList[k].event \in LabelEvents
        /\ Lower(issues_json[i].eventsList[k].label) \in known_types \cup known_resolutions}

SynthesizedEvents(i) ==
    {j \in 1..Len(issue_data[i].eventsList) : IsSynthesized(issue_data[i].eventsList[j])}

\* C29: the pass of reformat_events terminates for every finite timeline
\* although it appends to the list it iterates: a synthesized event is visited
\* by the loop but synthesizes nothing and leaves state, type and resolution,
\* and after the pass the appended events are as many as the labeled and
\* unlabeled events with a known label.
C29_ReformatEventsTerminates ==
    /\ (phase = "reformat_events") ~> (phase \in {"events_reformatted", "error"})
    /\ [][SynthesizedVisited => NothingSynthesized]_vars
    /\ [](ReformatDone =>
            \A i \in 1..Len(issue_data) :
                Cardinality(SynthesizedEvents(i)) = Cardinality(KnownLabelEvents(i)))

\* the pass has ended for an issue with two synthesized events, which the
\* loop has visited
C29_Witness ==
    /\ phase = "events_reformatted"
    /\ \E i \in 1..Len(issue_data) : Cardinality(SynthesizedEvents(i)) >= 2

\* the event is an unlabeled event whose lower-cased label is a known type
\* (resp. resolution) that the running type (resp. resolution) list of the
\* issue does not contain
UnlabeledAbsent(issue, event) ==
    LET label == Lower(event.label)
    IN /\ event.event = "unlabeled"
       /\ event.label # NoneLabel
       /\ \/ /\ label \in known_types
             /\ \A k \in 1..Len(issue.type) : issue.type[k] # label
          \/ /\ label \notin known_types
             /\ label \in known_resolutions
             /\ \A k \in 1..Len(issue.resolution) : issue.resolution[k] # label

\* the loop of reformat_events is about to process such an event
AtUnlabeledAbsent ==
    /\ phase = "reformat_events"
    /\ UnlabeledAbsent(issue_data[issue_idx], issue_data[issue_idx].eventsList[event_idx])

\* the run ends here: nothing is appended, the loop does not move on
RunEndsInError ==
    /\ phase' = "error"
    /\ Len(issue_data'[issue_idx].eventsList) = Len(issue_data[issue_idx].eventsList)
    /\ UNCHANGED <<issue_idx, event_idx, lines>>

\* C30: processing an unlabeled event whose lower-cased label is a known
\* type (resp. resolution) that is not in the running type (resp. resolution)
\* list of the issue ends the run in the error state: no type_updated or
\* resolution_updated event is synthesized for it, no later event or issue is
\* processed and no output is written.
C30_UnlabeledAbsentEndsRun ==
    /\ AtUnlabeledAbsent ~> (phase = "error")
    /\ [][AtUnlabeledAbsent => RunEndsInError]_vars
    /\ [][phase = "error" => UNCHANGED <<phase, issue_data, issue_idx, event_idx, lines>>]_vars
    /\ [](phase = "error" => lines = <<>>)

\* the run has ended at such an event, with a later event of the issue and a
\* later issue left unprocessed
C30_Witness ==
    /\ phase = "error"
    /\ issue_idx \in 1..(Len(issue_data) - 1)
    /\ event_idx \in 1..(Len(issue_data[issue_idx].eventsList) - 1)
    /\ UnlabeledAbsent(issue_data[issue_idx], issue_data[issue_idx].eventsList[event_idx])
    /\ issue_data[issue_idx + 1].eventsList # <<>>

====
